---- MODULE Spec2Model ----
(***************************************************************************)
(* Model of the cross-account credential broker of cloudtrail-bot          *)
(* (src/src/tools/credential.py): the DB connection-pool cache, the        *)
(* account directory queries and the one-hop / two-hop role assumption.    *)
(* Every blocking call of the code (parameter store, database, identity    *)
(* service) is one step of the calling thread, so that concurrent requests *)
(* interleave exactly at the code's suspension points.                     *)
(***************************************************************************)
EXTENDS Naturals, Sequences, FiniteSets, TLC

(***************************************************************************)
(* Bounds of the model.                                                    *)
(***************************************************************************)
\* requests each thread starts
MaxCalls == 2

\* the request threads of the process
Threads == {"t1", "t2"}

\* environment keys a caller may pass
EnvTypes == {"dev", "prd"}

(***************************************************************************)
(* Python values.                                                          *)
(***************************************************************************)
\* Python's None where a string is expected
None == "~None"

\* `if not v` on an Optional[str]
Falsy(v) == v = None \/ v = ""

\* Optional dict / row: <<>> is None, <<x>> is the value x
Nothing == <<>>

Some(x) == <<x>>

(***************************************************************************)
(* Parameter store paths (credential.py:20-25 and the f-strings).          *)
(***************************************************************************)
CROSSACCOUNT_ACCESS_KEY == "/access-key/crossaccount"

CROSSACCOUNT_SECRET_KEY == "/secret-key/crossaccount"

CROSSACCOUNT_BRIDGE_ACCOUNDID == "/crossaccountRoleBridge/bridgeAccountId"

CROSSACCOUNT_BRIDGE_EXTERNALID == "/crossaccountRoleBridge/bridgeExternalId"

CROSSACCOUNT_BRIDGE_ROLENAME == "/crossaccountRoleBridge/bridgeRoleName"

BrokerParams == {CROSSACCOUNT_ACCESS_KEY, CROSSACCOUNT_SECRET_KEY,
                 CROSSACCOUNT_BRIDGE_ACCOUNDID, CROSSACCOUNT_BRIDGE_EXTERNALID,
                 CROSSACCOUNT_BRIDGE_ROLENAME}

PrimaryTitlePath(env_type) == "/cloudtrail-bot/" \o env_type \o "/db/secret-title"

LegacyTitlePath(env_type) == "/fitcloud/" \o env_type \o "/db/secret_title"

fitcloud_ssm_prefix == "/fitcloud/prd/db/ts"

LegacyDbPath(env_type, leaf) == "/fitcloud/" \o env_type \o "/db/" \o leaf

TierBParams == {fitcloud_ssm_prefix \o "/host", fitcloud_ssm_prefix \o "/id",
                fitcloud_ssm_prefix \o "/pw"}

LegacyDbLeaves == {"host", "user/admin/id", "user/admin/pw", "db"}

AllParams == BrokerParams \cup TierBParams
             \cup {PrimaryTitlePath(e) : e \in EnvTypes}
             \cup {LegacyTitlePath(e) : e \in EnvTypes}
             \cup {LegacyDbPath(e, l) : e \in EnvTypes, l \in LegacyDbLeaves}

EnvVars == {"ENV_TYPE", "DB_HOST", "DB_USER", "DB_PASSWORD", "DB_NAME",
            "DB_PORT", "DB_SECRET_TITLE"}

VARIABLES
    environ,        \* os.environ: env var -> value, None when unset
    ssm,            \* the parameter store: path -> value, None when absent
    db_pool_cache,  \* _db_pool_cache: environment key -> pool id, 0 when not cached
    pools,          \* every ConnectionPool object constructed so far
    th,             \* per thread: position and locals of the request it runs
    callNo,         \* per thread: requests started
    returned,       \* history: <<key, pool id>> of each get_db_connection_pool return, in order
    tool,           \* per thread: the agent tool it runs, its position and its output
    manager,        \* the ConversationManager's max_conversations and ttl_seconds
    conversations,  \* its _conversations: the stored Conversation objects, oldest first
    heap,           \* every Conversation object constructed so far
    now,            \* time.time()
    last_op,        \* history: the last operation of the manager and what it returned
    recency,        \* history: the Conversation objects, least recently used first
    events,         \* the Slack events delivered so far
    task,           \* per event: the position of each handler that runs for it
    slack,          \* per thread: the senders of its messages that carry a bot_id
    agent_calls     \* history: the process_message calls, in order

\* the state of the credential module
credVars == <<environ, ssm, db_pool_cache, pools, th, callNo, returned>>

\* the state of the agent tools
toolVars == <<tool>>

\* the state of the conversation manager and of the Slack handlers
chatVars == <<manager, conversations, heap, now, last_op, recency, events, task,
              slack, agent_calls>>

vars == <<environ, ssm, db_pool_cache, pools, th, callNo, returned, toolVars, chatVars>>

(***************************************************************************)
(* Parameter store and configuration resolver.                             *)
(***************************************************************************)
\* load_parameter raises when the store has no value at the path
load_parameter_raises(param_name) == ssm[param_name] = None

\* load_parameter's return value (when it does not raise)
load_parameter(param_name) == ssm[param_name]

\* _load_parameter_safe: None instead of the exception
load_parameter_safe(param_name) ==
    IF load_parameter_raises(param_name) THEN None ELSE load_parameter(param_name)

\* one parameter-store read in a request's call log
SsmEvent(param_name) ==
    [ev |-> "ssm", name |-> param_name, ok |-> ~load_parameter_raises(param_name)]

\* mutant: the strict reads go on after a failure
StrictReads_continue(names) == [i \in 1..Len(names) |-> SsmEvent(names[i])]

\* strict reads of `names` in order: the events up to and including the first failure
RECURSIVE StrictReads(_)
StrictReads(names) ==
    IF names = <<>> THEN <<>>
    ELSE IF load_parameter_raises(Head(names)) THEN <<SsmEvent(Head(names))>>
    ELSE <<SsmEvent(Head(names))>> \o StrictReads(Tail(names))

\* mutant: a missing parameter of the legacy tier is not an error
AnyRaises_never(names) == FALSE

AnyRaises(names) == \E i \in 1..Len(names) : load_parameter_raises(names[i])

\* mutant: the primary path is consulted before the override
get_db_secret_title_primaryFirst(env_type) ==
    LET override == environ["DB_SECRET_TITLE"]
        primary  == load_parameter_safe(PrimaryTitlePath(env_type))
        legacy   == LegacyTitlePath(env_type)
    IN  IF ~Falsy(primary)
        THEN [raised |-> FALSE, value |-> primary,
              reads |-> <<SsmEvent(PrimaryTitlePath(env_type))>>]
        ELSE IF ~Falsy(override)
        THEN [raised |-> FALSE, value |-> override,
              reads |-> <<SsmEvent(PrimaryTitlePath(env_type))>>]
        ELSE [raised |-> load_parameter_raises(legacy),
              value |-> load_parameter(legacy),
              reads |-> <<SsmEvent(PrimaryTitlePath(env_type)), SsmEvent(legacy)>>]

\* mutant: the legacy path is read with the safe helper, None is returned
get_db_secret_title_absent(env_type) ==
    LET override == environ["DB_SECRET_TITLE"]
        primary  == load_parameter_safe(PrimaryTitlePath(env_type))
        legacy   == LegacyTitlePath(env_type)
    IN  IF ~Falsy(override)
        THEN [raised |-> FALSE, value |-> override, reads |-> <<>>]
        ELSE IF ~Falsy(primary)
        THEN [raised |-> FALSE, value |-> primary,
              reads |-> <<SsmEvent(PrimaryTitlePath(env_type))>>]
        ELSE [raised |-> FALSE,
              value |-> load_parameter_safe(legacy),
              reads |-> <<SsmEvent(PrimaryTitlePath(env_type)), SsmEvent(legacy)>>]

\* _get_db_secret_title: [raised, value, reads]
get_db_secret_title(env_type) ==
    LET override == environ["DB_SECRET_TITLE"]
        primary  == load_parameter_safe(PrimaryTitlePath(env_type))
        legacy   == LegacyTitlePath(env_type)
    IN  IF ~Falsy(override)
        THEN [raised |-> FALSE, value |-> override, reads |-> <<>>]
        ELSE IF ~Falsy(primary)
        THEN [raised |-> FALSE, value |-> primary,
              reads |-> <<SsmEvent(PrimaryTitlePath(env_type))>>]
        ELSE [raised |-> load_parameter_raises(legacy),
              value |-> load_parameter(legacy),
              reads |-> <<SsmEvent(PrimaryTitlePath(env_type)), SsmEvent(legacy)>>]

\* int() of the DB_PORT text; the texts a deployment may carry
IntTexts == {"3306", "3307"}

ParseInt(text) == IF text = "3306" THEN 3306 ELSE 3307

\* mutant: DB_USER, when set, wins over the tier that supplied the host
PoolSettings_envUserFirst(env_type) ==
    LET port_text == IF environ["DB_PORT"] = None THEN "3306" ELSE environ["DB_PORT"]
        bad_port  == port_text \notin IntTexts
        e_host    == environ["DB_HOST"]
        tryB      == Falsy(e_host)
        b_host    == load_parameter_safe(fitcloud_ssm_prefix \o "/host")
        useB      == tryB /\ ~Falsy(b_host)
        host2     == IF tryB THEN b_host ELSE e_host
        user2     == IF useB /\ Falsy(environ["DB_USER"])
                     THEN load_parameter_safe(fitcloud_ssm_prefix \o "/id")
                     ELSE environ["DB_USER"]
        pw2       == IF useB THEN load_parameter_safe(fitcloud_ssm_prefix \o "/pw")
                     ELSE environ["DB_PASSWORD"]
        name2     == IF useB THEN "edp" ELSE environ["DB_NAME"]
        port2     == IF useB THEN 3306 ELSE ParseInt(port_text)
        tryC      == Falsy(host2)
        cNames    == <<LegacyDbPath(env_type, "host"), LegacyDbPath(env_type, "user/admin/id"),
                       LegacyDbPath(env_type, "user/admin/pw"), LegacyDbPath(env_type, "db")>>
        readsB    == (IF tryB THEN <<SsmEvent(fitcloud_ssm_prefix \o "/host")>> ELSE <<>>)
                     \o (IF useB THEN <<SsmEvent(fitcloud_ssm_prefix \o "/id"),
                                        SsmEvent(fitcloud_ssm_prefix \o "/pw")>> ELSE <<>>)
    IN  IF bad_port
        THEN [raised |-> TRUE, db_config |-> Nothing, reads |-> <<>>]
        ELSE IF tryC
        THEN [raised |-> AnyRaises(cNames),
              db_config |-> Some([host |-> load_parameter(cNames[1]), port |-> port2,
                                  user |-> load_parameter(cNames[2]),
                                  password |-> load_parameter(cNames[3]),
                                  database |-> load_parameter(cNames[4]),
                                  charset |-> "utf8"]),
              reads |-> readsB \o StrictReads(cNames)]
        ELSE [raised |-> FALSE,
              db_config |-> Some([host |-> host2, port |-> port2, user |-> user2,
                                  password |-> pw2, database |-> name2,
                                  charset |-> "utf8"]),
              reads |-> readsB]

\* the settings part of get_db_connection_pool (lines 112-148):
\* [raised, db_config, reads]
PoolSettings(env_type) ==
    LET port_text == IF environ["DB_PORT"] = None THEN "3306" ELSE environ["DB_PORT"]
        bad_port  == port_text \notin IntTexts
        e_host    == environ["DB_HOST"]
        tryB      == Falsy(e_host)
        b_host    == load_parameter_safe(fitcloud_ssm_prefix \o "/host")
        useB      == tryB /\ ~Falsy(b_host)
        host2     == IF tryB THEN b_host ELSE e_host
        user2     == IF useB THEN load_parameter_safe(fitcloud_ssm_prefix \o "/id")
                     ELSE environ["DB_USER"]
        pw2       == IF useB THEN load_parameter_safe(fitcloud_ssm_prefix \o "/pw")
                     ELSE environ["DB_PASSWORD"]
        name2     == IF useB THEN "edp" ELSE environ["DB_NAME"]
        port2     == IF useB THEN 3306 ELSE ParseInt(port_text)
        tryC      == Falsy(host2)
        cNames    == <<LegacyDbPath(env_type, "host"), LegacyDbPath(env_type, "user/admin/id"),
                       LegacyDbPath(env_type, "user/admin/pw"), LegacyDbPath(env_type, "db")>>
        readsB    == (IF tryB THEN <<SsmEvent(fitcloud_ssm_prefix \o "/host")>> ELSE <<>>)
                     \o (IF useB THEN <<SsmEvent(fitcloud_ssm_prefix \o "/id"),
                                        SsmEvent(fitcloud_ssm_prefix \o "/pw")>> ELSE <<>>)
    IN  IF bad_port
        THEN [raised |-> TRUE, db_config |-> Nothing, reads |-> <<>>]
        ELSE IF tryC
        THEN [raised |-> AnyRaises(cNames),
              db_config |-> Some([host |-> load_parameter(cNames[1]), port |-> port2,
                                  user |-> load_parameter(cNames[2]),
                                  password |-> load_parameter(cNames[3]),
                                  database |-> load_parameter(cNames[4]),
                                  charset |-> "utf8"]),
              reads |-> readsB \o StrictReads(cNames)]
        ELSE [raised |-> FALSE,
              db_config |-> Some([host |-> host2, port |-> port2, user |-> user2,
                                  password |-> pw2, database |-> name2,
                                  charset |-> "utf8"]),
              reads |-> readsB]

(***************************************************************************)
(* The relational store: three tables and the two queries.                 *)
(* Text columns are sequences of characters, NULL is None (or Nothing for  *)
(* the decrypted column).                                                  *)
(***************************************************************************)
\* the label the stored role names are encrypted under
DbSecretLabel == "ssm:label"

corporation ==
    { [corp_id |-> "c1", corp_name |-> <<"a", "b", "c">>, delete_flag |-> 0],
      [corp_id |-> "c2", corp_name |-> <<"b", "c", "d">>, delete_flag |-> 0],
      [corp_id |-> "c3", corp_name |-> <<"x", "y">>,      delete_flag |-> 1],
      [corp_id |-> "c4", corp_name |-> <<"n", "o">>,      delete_flag |-> 0],
      [corp_id |-> "c5", corp_name |-> <<"q">>,           delete_flag |-> 0] }

corporation_add_info ==
    { [corp_id |-> "c1"], [corp_id |-> "c2"], [corp_id |-> "c3"], [corp_id |-> "c5"] }

account ==
    { [account_id |-> "111111111111", corp_id |-> "c1", role |-> <<"r", "o">>,
       assume_role_type |-> "Role", external_id |-> "ext-1", delete_flag |-> 0],
      [account_id |-> "222222222222", corp_id |-> "c2", role |-> <<"b", "o", "t">>,
       assume_role_type |-> "User", external_id |-> "ext-2", delete_flag |-> 0],
      [account_id |-> "333333333333", corp_id |-> "c1", role |-> <<"a", "b", "b", "a">>,
       assume_role_type |-> "Role", external_id |-> None, delete_flag |-> 0],
      [account_id |-> "444444444444", corp_id |-> "c2", role |-> <<>>,
       assume_role_type |-> "Role", external_id |-> "", delete_flag |-> 0],
      [account_id |-> "555555555555", corp_id |-> "c2", role |-> <<"r", "5">>,
       assume_role_type |-> "Role", external_id |-> "ext-5", delete_flag |-> 1],
      [account_id |-> "666666666666", corp_id |-> "c3", role |-> <<"r", "6">>,
       assume_role_type |-> "User", external_id |-> None, delete_flag |-> 0],
      [account_id |-> "777777777777", corp_id |-> "c4", role |-> <<"r", "7">>,
       assume_role_type |-> "Role", external_id |-> "ext-7", delete_flag |-> 0],
      [account_id |-> "888888888888", corp_id |-> "c5", role |-> <<"b", "b">>,
       assume_role_type |-> "Role", external_id |-> "ext-8", delete_flag |-> 0] }

\* AES_DECRYPT(UNHEX(cross_account_role_name), SHA2(title, 512)): NULL under a wrong key
AES_DECRYPT(a, secret_title) ==
    IF secret_title = DbSecretLabel THEN Some(a.role) ELSE Nothing

\* SQL `x != ''`: not true of NULL
NotEmptySql(x) == x # Nothing /\ x[1] # <<>>

\* term occurs in s as a substring
Contains(s, term) ==
    \E i \in 0..(Len(s) - Len(term)) : SubSeq(s, i + 1, i + Len(term)) = term

\* SQL `s LIKE pattern`: % matches any run of characters, _ any one character
RECURSIVE Like(_, _)
Like(s, pattern) ==
    IF pattern = <<>> THEN s = <<>>
    ELSE IF Head(pattern) = "%"
    THEN Like(s, Tail(pattern)) \/ (s # <<>> /\ Like(Tail(s), pattern))
    ELSE /\ s # <<>>
         /\ Head(pattern) = "_" \/ Head(pattern) = Head(s)
         /\ Like(Tail(s), Tail(pattern))

\* line 280: search_pattern = f"%{corp_name}%"
search_pattern(corp_name) == <<"%">> \o corp_name \o <<"%">>

\* the SELECT list of both queries, as the driver's row tuple
RowOf(c, a, secret_title) ==
    <<c.corp_id, c.corp_name, a.account_id, AES_DECRYPT(a, secret_title)[1],
      a.assume_role_type, a.external_id>>

\* mutant: the id query without its account_id filter
SelectById_anyAccount(account_id, secret_title) ==
    { RowOf(c, a, secret_title) :
        <<c, a>> \in { <<c, a>> \in corporation \X account :
            /\ c.delete_flag = 0
            /\ \E cai \in corporation_add_info : cai.corp_id = c.corp_id
            /\ a.corp_id = c.corp_id
            /\ NotEmptySql(AES_DECRYPT(a, secret_title))
            /\ a.delete_flag = 0 } }

\* mutant: the id query without the account's delete_flag filter
SelectById_withDeleted(account_id, secret_title) ==
    { RowOf(c, a, secret_title) :
        <<c, a>> \in { <<c, a>> \in corporation \X account :
            /\ c.delete_flag = 0
            /\ \E cai \in corporation_add_info : cai.corp_id = c.corp_id
            /\ a.corp_id = c.corp_id
            /\ a.account_id = account_id
            /\ NotEmptySql(AES_DECRYPT(a, secret_title)) } }

\* the rows the id query of get_account_info_from_db selects (before LIMIT 1)
SelectById(account_id, secret_title) ==
    { RowOf(c, a, secret_title) :
        <<c, a>> \in { <<c, a>> \in corporation \X account :
            /\ c.delete_flag = 0
            /\ \E cai \in corporation_add_info : cai.corp_id = c.corp_id
            /\ a.corp_id = c.corp_id
            /\ a.account_id = account_id
            /\ NotEmptySql(AES_DECRYPT(a, secret_title))
            /\ a.delete_flag = 0 } }

\* the rows the name query of search_account_by_name selects (before LIMIT 1)
SelectByName(corp_name, secret_title) ==
    { RowOf(c, a, secret_title) :
        <<c, a>> \in { <<c, a>> \in corporation \X account :
            /\ c.delete_flag = 0
            /\ Like(c.corp_name, search_pattern(corp_name))
            /\ \E cai \in corporation_add_info : cai.corp_id = c.corp_id
            /\ a.corp_id = c.corp_id
            /\ NotEmptySql(AES_DECRYPT(a, secret_title))
            /\ a.delete_flag = 0 } }

\* bytes.decode('utf-8').replace('b', '') on the characters of the column
StripB(text) == SelectSeq(text, LAMBDA ch : ch # "b")

\* lines 210-212 / 285-287: the role name as the record carries it
NormalizeRoleName(role_name, is_bytes) ==
    IF is_bytes THEN StripB(role_name) ELSE role_name

\* mutant: the record carries the stored external id as it is
RecordOf_rawExternalId(row, is_bytes) ==
    [corp_id |-> row[1], corp_name |-> row[2], account_id |-> row[3],
     role_name |-> NormalizeRoleName(row[4], is_bytes),
     assume_role_type |-> row[5],
     external_id |-> row[6]]

\* lines 214-221 / 289-296: the record built from a row
RecordOf(row, is_bytes) ==
    [corp_id |-> row[1], corp_name |-> row[2], account_id |-> row[3],
     role_name |-> NormalizeRoleName(row[4], is_bytes),
     assume_role_type |-> row[5],
     external_id |-> IF Falsy(row[6]) THEN "" ELSE row[6]]

(***************************************************************************)
(* Requests.  A thread runs get_credential_by_account_id or                *)
(* get_credential_by_corp_name; pc is the call it is about to make.        *)
(***************************************************************************)
\* pool sizing of pymysqlpool.ConnectionPool(size=2, maxsize=3, pre_create_num=2)
maxsize == 3

\* locals of a thread that runs no request
IdleThread ==
    [pc |-> "idle", op |-> "none", account_id |-> None, corp_name |-> <<>>,
     env_type |-> "dev", pool |-> 0, db_config |-> Nothing, conn |-> "none",
     curs |-> "none", secret_title |-> None, dir_ret |-> Nothing, dir_exc |-> FALSE,
     account_info |-> Nothing, loaded |-> <<>>, bridge |-> Nothing, log |-> <<>>,
     outcome |-> "none", result |-> Nothing]

\* account ids and search terms the callers pass
AccountIdInputs == {a.account_id : a \in account} \cup {"999999999999"}

CorpNameInputs == { <<"b", "c">>, <<"a">>, <<"x">>, <<"z">> }

\* env_type argument: None lets ENV_TYPE (default dev) decide
EnvArg(env) ==
    IF env = None
    THEN (IF environ["ENV_TYPE"] = None THEN "dev" ELSE environ["ENV_TYPE"])
    ELSE env

\* get_credential_by_account_id(account_id, env) is called (lines 407-422)
CallByAccountId(t, account_id, env) ==
    /\ th[t].pc \in {"idle", "done"}
    /\ callNo[t] < MaxCalls
    /\ th' = [th EXCEPT ![t] = [IdleThread EXCEPT !.pc = "pool_check",
                  !.op = "by_id", !.account_id = account_id,
                  !.env_type = EnvArg(env)]]
    /\ callNo' = [callNo EXCEPT ![t] = @ + 1]
    /\ UNCHANGED <<environ, ssm, db_pool_cache, pools, returned>>

\* get_credential_by_corp_name(corp_name, env) is called (lines 441-456)
CallByCorpName(t, corp_name, env) ==
    /\ th[t].pc \in {"idle", "done"}
    /\ callNo[t] < MaxCalls
    /\ th' = [th EXCEPT ![t] = [IdleThread EXCEPT !.pc = "pool_check",
                  !.op = "by_name", !.corp_name = corp_name,
                  !.env_type = EnvArg(env)]]
    /\ callNo' = [callNo EXCEPT ![t] = @ + 1]
    /\ UNCHANGED <<environ, ssm, db_pool_cache, pools, returned>>

\* the arguments of a direct call of the broker; external_id defaults to None
ExternalIdInputs == {None, "", "ext-9"}

AssumeRoleTypeInputs == {"User", "Role"}

\* get_assumed_role_credential(account_id, role_name, external_id,
\* assume_role_type) is called by itself (lines 308-328)
CallAssumedRoleCredential(t, account_id, role_name, external_id, assume_role_type) ==
    /\ th[t].pc \in {"idle", "done"}
    /\ callNo[t] < MaxCalls
    /\ th' = [th EXCEPT ![t] = [IdleThread EXCEPT !.pc = "broker_load",
                  !.op = "assume", !.account_id = account_id,
                  !.account_info = Some([account_id |-> account_id,
                                         role_name |-> role_name,
                                         external_id |-> external_id,
                                         assume_role_type |-> assume_role_type])]]
    /\ callNo' = [callNo EXCEPT ![t] = @ + 1]
    /\ UNCHANGED <<environ, ssm, db_pool_cache, pools, returned>>

(***************************************************************************)
(* get_db_connection_pool (lines 98-158), called outside the directory's   *)
(* try block (lines 172, 246).                                             *)
(***************************************************************************)
\* what the cache lookup of line 109 reads
CacheLookup(env_type) == db_pool_cache[env_type]

\* lines 109-110: the cache test, and the return on a hit
PoolCheck(t) ==
    /\ th[t].pc = "pool_check"
    /\ IF CacheLookup(th[t].env_type) # 0
       THEN /\ th' = [th EXCEPT ![t].pool = CacheLookup(th[t].env_type),
                                ![t].pc = "get_connection"]
            /\ returned' = Append(returned, <<th[t].env_type, CacheLookup(th[t].env_type)>>)
       ELSE /\ th' = [th EXCEPT ![t].pc = "pool_settings"]
            /\ UNCHANGED returned
    /\ UNCHANGED <<environ, ssm, db_pool_cache, pools, callNo>>

\* lines 112-148: the settings are resolved; a failure leaves the directory
\* function as an exception
PoolResolve(t) ==
    /\ th[t].pc = "pool_settings"
    /\ LET s == PoolSettings(th[t].env_type)
       IN  th' = [th EXCEPT ![t].log = @ \o s.reads,
                            ![t].db_config = IF s.raised THEN Nothing ELSE s.db_config,
                            ![t].dir_exc = s.raised,
                            ![t].pc = IF s.raised THEN "dir_done" ELSE "pool_create"]
    /\ UNCHANGED <<environ, ssm, db_pool_cache, pools, callNo, returned>>

\* mutant: the constructed pool is not put into the cache
CacheStore_forget(env_type, pool) == db_pool_cache

\* line 157: the cache after a pool was constructed for env_type
CacheStore(env_type, pool) == [db_pool_cache EXCEPT ![env_type] = pool]

\* lines 150-158: the pool is constructed (it connects: this can fail), cached
\* and returned
PoolCreate(t) ==
    /\ th[t].pc = "pool_create"
    /\ \E ok \in BOOLEAN :
         IF ok
         THEN /\ pools' = Append(pools, [name |-> "credential_pool_" \o th[t].env_type,
                                         key |-> th[t].env_type,
                                         db_config |-> th[t].db_config[1],
                                         leased |-> 0])
              /\ db_pool_cache' = CacheStore(th[t].env_type, Len(pools) + 1)
              /\ returned' = Append(returned, <<th[t].env_type, Len(pools) + 1>>)
              /\ th' = [th EXCEPT ![t].pool = Len(pools) + 1,
                                  ![t].pc = "get_connection"]
         ELSE /\ th' = [th EXCEPT ![t].dir_exc = TRUE, ![t].pc = "dir_done"]
              /\ UNCHANGED <<pools, db_pool_cache, returned>>
    /\ UNCHANGED <<environ, ssm, callNo>>

(***************************************************************************)
(* The directory queries get_account_info_from_db (lines 161-232) and      *)
(* search_account_by_name (lines 235-307): the same steps around a         *)
(* different SELECT.  The except clause turns a failure into None; the     *)
(* finally clause runs on every path.                                      *)
(***************************************************************************)
\* lines 224-226: except Exception -> return None, then the finally clause
Caught(t) == [th EXCEPT ![t].dir_ret = Nothing, ![t].pc = "finally_curs"]

\* line 177: conn = pool.get_connection()
GetConnection(t) ==
    /\ th[t].pc = "get_connection"
    /\ \E ok \in BOOLEAN :
         IF ok /\ pools[th[t].pool].leased < maxsize
         THEN /\ pools' = [pools EXCEPT ![th[t].pool].leased = @ + 1]
              /\ th' = [th EXCEPT ![t].conn = "open", ![t].pc = "cursor"]
         ELSE /\ th' = Caught(t)
              /\ UNCHANGED pools
    /\ UNCHANGED <<environ, ssm, db_pool_cache, callNo, returned>>

\* line 178: curs = conn.cursor()
Cursor(t) ==
    /\ th[t].pc = "cursor"
    /\ \E ok \in BOOLEAN :
         th' = IF ok THEN [th EXCEPT ![t].curs = "open", ![t].pc = "secret_title"]
               ELSE Caught(t)
    /\ UNCHANGED <<environ, ssm, db_pool_cache, pools, callNo, returned>>

\* line 205: secret_title = _get_db_secret_title(env_type), inside the try
SecretTitle(t) ==
    /\ th[t].pc = "secret_title"
    /\ LET s == get_db_secret_title(th[t].env_type)
       IN  th' = IF s.raised
                 THEN [Caught(t) EXCEPT ![t].log = @ \o s.reads]
                 ELSE [th EXCEPT ![t].log = @ \o s.reads,
                                 ![t].secret_title = s.value,
                                 ![t].pc = "execute"]
    /\ UNCHANGED <<environ, ssm, db_pool_cache, pools, callNo, returned>>

\* line 206: curs.execute(sql, ...)
Execute(t) ==
    /\ th[t].pc = "execute"
    /\ \E ok \in BOOLEAN :
         th' = IF ok THEN [th EXCEPT ![t].pc = "fetchone"] ELSE Caught(t)
    /\ UNCHANGED <<environ, ssm, db_pool_cache, pools, callNo, returned>>

\* the rows the request's query selects
Selected(t) ==
    IF th[t].op \in {"by_id", "dir_id"} THEN SelectById(th[t].account_id, th[t].secret_title)
    ELSE SelectByName(th[t].corp_name, th[t].secret_title)

\* lines 208-222: row = curs.fetchone() (LIMIT 1 without ORDER BY: any selected
\* row), and the record or None that the try block returns
Fetchone(t) ==
    /\ th[t].pc = "fetchone"
    /\ \/ th' = Caught(t)
       \/ /\ Selected(t) = {}
          /\ th' = [th EXCEPT ![t].dir_ret = Nothing, ![t].pc = "finally_curs"]
       \/ \E row \in Selected(t), is_bytes \in BOOLEAN :
            th' = [th EXCEPT ![t].dir_ret = Some(RecordOf(row, is_bytes)),
                             ![t].pc = "finally_curs"]
    /\ UNCHANGED <<environ, ssm, db_pool_cache, pools, callNo, returned>>

\* lines 229-230: if curs: curs.close(); a failure leaves the function here
CursClose(t) ==
    /\ th[t].pc = "finally_curs"
    /\ IF th[t].curs = "none"
       THEN th' = [th EXCEPT ![t].pc = "finally_conn"]
       ELSE \E ok \in BOOLEAN :
              th' = IF ok
                    THEN [th EXCEPT ![t].curs = "closed", ![t].pc = "finally_conn"]
                    ELSE [th EXCEPT ![t].dir_ret = Nothing, ![t].dir_exc = TRUE,
                                    ![t].pc = "dir_done"]
    /\ UNCHANGED <<environ, ssm, db_pool_cache, pools, callNo, returned>>

\* lines 231-232: if conn: conn.close() gives the connection back to its pool
ConnClose(t) ==
    /\ th[t].pc = "finally_conn"
    /\ IF th[t].conn = "none"
       THEN /\ th' = [th EXCEPT ![t].pc = "dir_done"]
            /\ UNCHANGED pools
       ELSE /\ th' = [th EXCEPT ![t].conn = "closed", ![t].pc = "dir_done"]
            /\ pools' = [pools EXCEPT ![th[t].pool].leased = @ - 1]
    /\ UNCHANGED <<environ, ssm, db_pool_cache, callNo, returned>>

(***************************************************************************)
(* get_credential_by_account_id / get_credential_by_corp_name after the    *)
(* directory call (lines 424-438, 458-475) and get_assumed_role_credential *)
(* (lines 310-383).                                                        *)
(***************************************************************************)
RECURSIVE Join(_)
Join(chars) == IF chars = <<>> THEN "" ELSE Head(chars) \o Join(Tail(chars))

\* line 328: f"arn:aws:iam::{account_id}:role/{role_name}"
RoleArn(account_id, role_name) ==
    "arn:aws:iam::" \o account_id \o ":role/" \o role_name

\* the configuration the broker loads, in the order of lines 332-333 / 348-350
BrokerParamNames(assume_role_type) ==
    IF assume_role_type = "User"
    THEN <<CROSSACCOUNT_ACCESS_KEY, CROSSACCOUNT_SECRET_KEY>>
    ELSE <<CROSSACCOUNT_BRIDGE_ACCOUNDID, CROSSACCOUNT_BRIDGE_EXTERNALID,
           CROSSACCOUNT_BRIDGE_ROLENAME>>

\* mutant: the failure is swallowed and what the chain obtained so far is returned
Raise_partial(t) ==
    [th EXCEPT ![t].outcome = "returned", ![t].result = th[t].bridge, ![t].pc = "done"]

\* the exception of a callee leaves the request: nothing is returned
Raise(t) == [th EXCEPT ![t].outcome = "raised", ![t].result = Nothing, ![t].pc = "done"]

\* lines 424-436 / 458-470: absent -> return None; else the broker is entered
DirReturn(t) ==
    /\ th[t].pc = "dir_done"
    /\ th[t].op \in {"by_id", "by_name"}
    /\ th' = IF th[t].dir_exc THEN Raise(t)
             ELSE IF th[t].dir_ret = Nothing
             THEN [th EXCEPT ![t].outcome = "returned", ![t].result = Nothing,
                             ![t].pc = "done"]
             ELSE [th EXCEPT ![t].account_info = th[t].dir_ret,
                             ![t].pc = "broker_load"]
    /\ UNCHANGED <<environ, ssm, db_pool_cache, pools, callNo, returned>>

\* mutant: the strategy test ignores the case of assume_role_type
LoadBrokerParameter_anyCase(t) ==
    /\ th[t].pc = "broker_load"
    /\ LET info  == th[t].account_info[1]
           user  == info.assume_role_type \in {"User", "user"}
           names == IF user
                    THEN <<CROSSACCOUNT_ACCESS_KEY, CROSSACCOUNT_SECRET_KEY>>
                    ELSE <<CROSSACCOUNT_BRIDGE_ACCOUNDID, CROSSACCOUNT_BRIDGE_EXTERNALID,
                           CROSSACCOUNT_BRIDGE_ROLENAME>>
           name  == names[Len(th[t].loaded) + 1]
           last  == Len(th[t].loaded) + 1 = Len(names)
       IN  th' = IF load_parameter_raises(name)
                 THEN [Raise(t) EXCEPT ![t].log = Append(@, SsmEvent(name))]
                 ELSE [th EXCEPT ![t].log = Append(@, SsmEvent(name)),
                                 ![t].loaded = Append(@, load_parameter(name)),
                                 ![t].pc = IF ~last THEN "broker_load"
                                           ELSE IF user
                                           THEN "assume_user" ELSE "assume_bridge"]
    /\ UNCHANGED <<environ, ssm, db_pool_cache, pools, callNo, returned>>

\* lines 332-333 / 348-350: the next load_parameter of the broker
LoadBrokerParameter(t) ==
    /\ th[t].pc = "broker_load"
    /\ LET info  == th[t].account_info[1]
           names == BrokerParamNames(info.assume_role_type)
           name  == names[Len(th[t].loaded) + 1]
           last  == Len(th[t].loaded) + 1 = Len(names)
       IN  th' = IF load_parameter_raises(name)
                 THEN [Raise(t) EXCEPT ![t].log = Append(@, SsmEvent(name))]
                 ELSE [th EXCEPT ![t].log = Append(@, SsmEvent(name)),
                                 ![t].loaded = Append(@, load_parameter(name)),
                                 ![t].pc = IF ~last THEN "broker_load"
                                           ELSE IF info.assume_role_type = "User"
                                           THEN "assume_user" ELSE "assume_bridge"]
    /\ UNCHANGED <<environ, ssm, db_pool_cache, pools, callNo, returned>>

\* the temporary credentials the identity service issues for one call
Credentials(t, hop) ==
    LET tag == t \o "-" \o ToString(callNo[t]) \o "-" \o hop
    IN  [AccessKeyId |-> "ASIA-" \o tag, SecretAccessKey |-> "secret-" \o tag,
         SessionToken |-> "token-" \o tag]

\* boto3.client('sts') without keys: the process's ambient credentials
AmbientAuth ==
    [aws_access_key_id |-> None, aws_secret_access_key |-> None,
     aws_session_token |-> None]

\* lines 335-339: the client of the User path
UserClientAuth(aws_access_key_id, aws_secret_access_key) ==
    [aws_access_key_id |-> aws_access_key_id,
     aws_secret_access_key |-> aws_secret_access_key,
     aws_session_token |-> None]

\* mutant: the User path passes the record's external id
UserAssumeParams_withExternalId(role_arn, external_id) ==
    IF ~Falsy(external_id)
    THEN [RoleArn |-> role_arn, RoleSessionName |-> "cloudtrail_bot_session",
          ExternalId |-> external_id]
    ELSE [RoleArn |-> role_arn, RoleSessionName |-> "cloudtrail_bot_session"]

\* lines 341-344: the parameters of the User path's assume_role
UserAssumeParams(role_arn, external_id) ==
    [RoleArn |-> role_arn, RoleSessionName |-> "cloudtrail_bot_session"]

\* line 355: the client of the bridge call
BridgeClientAuth == AmbientAuth

\* lines 352-360: the parameters of the bridge assume_role
BridgeAssumeParams(bridge_account_id, bridge_external_id, bridge_role_name) ==
    [RoleArn |-> RoleArn(bridge_account_id, bridge_role_name),
     RoleSessionName |-> "bridge_session", ExternalId |-> bridge_external_id]

\* mutant: the target client is built without the bridge session
TargetClientAuth_ambient(bridge_assumed_role) == AmbientAuth

\* lines 363-368: the client of the target call
TargetClientAuth(bridge_assumed_role) ==
    [aws_access_key_id |-> bridge_assumed_role.AccessKeyId,
     aws_secret_access_key |-> bridge_assumed_role.SecretAccessKey,
     aws_session_token |-> bridge_assumed_role.SessionToken]

\* mutant: ExternalId is sent even when the external id is empty
AssumeParams_always(role_arn, external_id) ==
    [RoleArn |-> role_arn, RoleSessionName |-> "cloudtrail_bot_session",
     ExternalId |-> external_id]

\* lines 370-375: the parameters of the target assume_role
AssumeParams(role_arn, external_id) ==
    IF ~Falsy(external_id)
    THEN [RoleArn |-> role_arn, RoleSessionName |-> "cloudtrail_bot_session",
          ExternalId |-> external_id]
    ELSE [RoleArn |-> role_arn, RoleSessionName |-> "cloudtrail_bot_session"]

\* one assume_role call in a request's call log
StsEvent(hop, auth, params, ok, creds) ==
    [ev |-> "sts", hop |-> hop, auth |-> auth, params |-> params, ok |-> ok,
     creds |-> creds]

\* lines 379-383: the triple returned
Triple(assumed_role) ==
    [accessKeyId |-> assumed_role.AccessKeyId,
     secretAccessKey |-> assumed_role.SecretAccessKey,
     sessionToken |-> assumed_role.SessionToken]

\* mutant: the triple of the thread's first request is handed out again
Return_firstCall(t, ev) ==
    [th EXCEPT ![t].log = Append(@, ev), ![t].outcome = "returned",
               ![t].result = Some([accessKeyId |-> "ASIA-" \o t \o "-1-" \o ev.hop,
                                   secretAccessKey |-> "secret-" \o t \o "-1-" \o ev.hop,
                                   sessionToken |-> "token-" \o t \o "-1-" \o ev.hop]),
               ![t].pc = "done"]

\* the request returns the credential of its last assume_role (line 438);
\* get_credential_by_corp_name returns it beside the record (lines 472-475)
Return(t, ev) ==
    [th EXCEPT ![t].log = Append(@, ev), ![t].outcome = "returned",
               ![t].result =
                   IF th[t].op = "by_name"
                   THEN Some([account_info |-> th[t].account_info[1],
                              credential |-> Triple(ev.creds[1])])
                   ELSE Some(Triple(ev.creds[1])),
               ![t].pc = "done"]

\* lines 335-344: the single assume_role of the User path
AssumeUser(t) ==
    /\ th[t].pc = "assume_user"
    /\ LET info == th[t].account_info[1]
           auth == UserClientAuth(th[t].loaded[1], th[t].loaded[2])
           prm  == UserAssumeParams(RoleArn(info.account_id, Join(info.role_name)),
                                    info.external_id)
       IN  \E ok \in BOOLEAN :
             th' = IF ok
                   THEN Return(t, StsEvent("user", auth, prm, TRUE,
                                           Some(Credentials(t, "user"))))
                   ELSE [Raise(t) EXCEPT ![t].log =
                            Append(@, StsEvent("user", auth, prm, FALSE, Nothing))]
    /\ UNCHANGED <<environ, ssm, db_pool_cache, pools, callNo, returned>>

\* lines 352-360: the bridge role is assumed
AssumeBridge(t) ==
    /\ th[t].pc = "assume_bridge"
    /\ LET prm == BridgeAssumeParams(th[t].loaded[1], th[t].loaded[2], th[t].loaded[3])
       IN  \E ok \in BOOLEAN :
             th' = IF ok
                   THEN [th EXCEPT ![t].log = Append(@, StsEvent("bridge", BridgeClientAuth,
                                        prm, TRUE, Some(Credentials(t, "bridge")))),
                                   ![t].bridge = Some(Credentials(t, "bridge")),
                                   ![t].pc = "assume_target"]
                   ELSE [Raise(t) EXCEPT ![t].log =
                            Append(@, StsEvent("bridge", BridgeClientAuth, prm, FALSE,
                                               Nothing))]
    /\ UNCHANGED <<environ, ssm, db_pool_cache, pools, callNo, returned>>

\* lines 362-377: the target role is assumed with the bridge session
AssumeTarget(t) ==
    /\ th[t].pc = "assume_target"
    /\ LET info == th[t].account_info[1]
           auth == TargetClientAuth(th[t].bridge[1])
           prm  == AssumeParams(RoleArn(info.account_id, Join(info.role_name)),
                                info.external_id)
       IN  \E ok \in BOOLEAN :
             th' = IF ok
                   THEN Return(t, StsEvent("target", auth, prm, TRUE,
                                           Some(Credentials(t, "target"))))
                   ELSE [Raise(t) EXCEPT ![t].log =
                            Append(@, StsEvent("target", auth, prm, FALSE, Nothing))]
    /\ UNCHANGED <<environ, ssm, db_pool_cache, pools, callNo, returned>>

(***************************************************************************)
(* Deployments: what the environment and the parameter store hold.         *)
(***************************************************************************)
\* the store of a deployment on the legacy infrastructure: broker and legacy
\* paths present, the bot's own paths absent
LegacyStore ==
    [p \in AllParams |->
        IF p \in TierBParams \cup {PrimaryTitlePath(e) : e \in EnvTypes} THEN None
        ELSE IF p \in {LegacyTitlePath(e) : e \in EnvTypes} THEN DbSecretLabel
        ELSE "ssm:" \o p]

Without(store, p) == [store EXCEPT ![p] = None]

With(store, ps) == [p \in AllParams |-> IF p \in ps THEN "ssm:" \o p ELSE store[p]]

\* stores that differ in what they hold for the database
DbStores ==
    {LegacyStore, With(LegacyStore, TierBParams),
     Without(LegacyStore, LegacyDbPath("dev", "host")),
     Without(LegacyStore, LegacyDbPath("dev", "user/admin/id")),
     Without(LegacyStore, LegacyTitlePath("dev")),
     With(LegacyStore, {PrimaryTitlePath(e) : e \in EnvTypes})}

\* stores that lack one parameter of the broker
BrokerStores == {Without(LegacyStore, p) : p \in BrokerParams}

SsmStores == DbStores \cup BrokerStores

NoEnviron == [v \in EnvVars |-> None]

Environs ==
    {NoEnviron,
     [NoEnviron EXCEPT !["DB_HOST"] = "db.local", !["DB_USER"] = "bot",
                       !["DB_PASSWORD"] = "pw", !["DB_NAME"] = "edp",
                       !["ENV_TYPE"] = "prd"],
     [NoEnviron EXCEPT !["DB_HOST"] = "db.local", !["DB_PORT"] = "3307"],
     [NoEnviron EXCEPT !["DB_USER"] = "bot", !["DB_PASSWORD"] = "pw",
                       !["DB_NAME"] = "bot_db", !["DB_PORT"] = "3307"],
     [NoEnviron EXCEPT !["DB_SECRET_TITLE"] = "env:title"],
     [NoEnviron EXCEPT !["DB_SECRET_TITLE"] = ""],
     [NoEnviron EXCEPT !["DB_PORT"] = "port"]}

(***************************************************************************)
(* conversation.py: the ConversationManager keeps Conversation objects in  *)
(* an OrderedDict keyed by "channel:thread_ts".  A Conversation is an      *)
(* object: a handler that holds one keeps writing to it after the manager  *)
(* dropped it.  heap[id] is the object in slot id; conversations lists the *)
(* ids the manager stores, in the order of the OrderedDict.  An object     *)
(* nothing refers to is freed and its slot is used again.                  *)
(***************************************************************************)
\* the largest max_conversations a manager is constructed with (the code's
\* default is 1000)
MaxConversations == 2

\* the clock runs from 0 to MaxNow
MaxNow == 2

\* the Slack events delivered in one run
MaxEvents == 2

\* build_contextual_prompt(..., max_history: int = 5)
max_history == 5

\* the one channel, and the threads of it: one more than a manager can hold
Channel == "C1"

ThreadTs == {ToString(i) : i \in 1..(MaxConversations + 1)}

\* the slots of Conversation objects: the stored ones, those the handlers of
\* the events hold, and one more
HeapSlots == 1..(MaxConversations + 2 * MaxEvents + 1)

\* a slot that holds no object
NoConversation == [key |-> "", messages |-> <<>>, last_activity |-> 0]

\* line 73: f"{channel}:{thread_ts}"
make_key(channel, thread_ts) == channel \o ":" \o thread_ts

\* Conversation(), lines 22-30, created at time.time() = now
NewConversation(key) == [key |-> key, messages |-> <<>>, last_activity |-> now]

\* lines 32-35: add_user_message
add_user_message(conv, content) ==
    [conv EXCEPT !.messages = Append(@, [role |-> "user", content |-> content]),
                 !.last_activity = now]

\* mutant: the reply is not stored
add_assistant_message_dropped(conv, content) == conv

\* lines 37-40: add_assistant_message
add_assistant_message(conv, content) ==
    [conv EXCEPT !.messages = Append(@, [role |-> "assistant", content |-> content]),
                 !.last_activity = now]

\* lines 53-55: is_expired
is_expired(conv, ttl_seconds) == now - conv.last_activity > ttl_seconds

\* the last n elements of a sequence: messages[-n:]
LastN(seq, n) == IF Len(seq) <= n THEN seq ELSE SubSeq(seq, Len(seq) - n + 1, Len(seq))

\* lines 141-181: the prompt holds the recent history and the current question
build_contextual_prompt(user_message, conv) ==
    [history |-> LastN(conv.messages, max_history * 2), question |-> user_message]

\* the elements of a sequence
Range(seq) == {seq[i] : i \in 1..Len(seq)}

\* self._conversations.get(key): the stored object's id, 0 for None
Lookup(key) ==
    LET at == {i \in 1..Len(conversations) : heap[conversations[i]].key = key}
    IN  IF at = {} THEN 0 ELSE conversations[CHOOSE i \in at : TRUE]

\* OrderedDict.move_to_end(key)
move_to_end(order, id) == Append(SelectSeq(order, LAMBDA x : x # id), id)

\* mutant: _cleanup without its capacity loop
cleanup_unbounded(order, objects) ==
    LET kept == SelectSeq(order, LAMBDA id : ~is_expired(objects[id], manager.ttl_seconds))
    IN  [order |-> kept, evicted |-> <<>>]

\* lines 105-117: _cleanup deletes the expired conversations, then pops from
\* the front of the OrderedDict while more than max_conversations are stored
cleanup(order, objects) ==
    LET kept == SelectSeq(order, LAMBDA id : ~is_expired(objects[id], manager.ttl_seconds))
        over == IF Len(kept) > manager.max_conversations
                THEN Len(kept) - manager.max_conversations ELSE 0
    IN  [order |-> SubSeq(kept, over + 1, Len(kept)), evicted |-> SubSeq(kept, 1, over)]

\* what an operation of the manager leaves in last_op: the object it returned
\* (0 for None) and the objects its capacity loop popped
Op(op, ret, evicted) == [op |-> op, ret |-> ret, evicted |-> evicted]

\* the slot a new object is put in
FreeSlot == CHOOSE s \in HeapSlots :
                heap[s] = NoConversation /\ \A r \in 1..(s - 1) : heap[r] # NoConversation

\* lines 75-92: get_or_create(channel, thread_ts), as the new values of
\* <<conversations, heap, last_op>>
get_or_create(channel, thread_ts) ==
    LET key     == make_key(channel, thread_ts)
        id      == Lookup(key)
        objects == [heap EXCEPT ![FreeSlot] = NewConversation(key)]
        c       == cleanup(Append(conversations, FreeSlot), objects)
    IN  IF id # 0
        THEN [conversations |-> move_to_end(conversations, id), heap |-> heap,
              last_op |-> Op("get_or_create", id, <<>>)]
        ELSE [conversations |-> c.order, heap |-> objects,
              last_op |-> Op("get_or_create", FreeSlot, c.evicted)]

\* the objects the running handlers hold
TaskRefs(tasks) ==
    {tasks[e].app_mention.conv : e \in 1..Len(tasks)}
    \cup {tasks[e].message.conv : e \in 1..Len(tasks)}

\* the objects that stay: those stored, the one just returned and those held
Collect(objects, order, op, tasks) ==
    [s \in HeapSlots |->
        IF s \in Range(order) \cup {op.ret} \cup TaskRefs(tasks)
        THEN objects[s] ELSE NoConversation]

\* Conversation id was used: it becomes the most recent of the live objects
Used(objects, id) ==
    LET live == SelectSeq(recency, LAMBDA x : objects[x] # NoConversation /\ x # id)
    IN  IF id = 0 THEN live ELSE Append(live, id)

\* get_or_create called on the manager
GetOrCreate(channel, thread_ts) ==
    LET r == get_or_create(channel, thread_ts)
    IN  /\ conversations' = r.conversations
        /\ last_op' = r.last_op
        /\ heap' = Collect(r.heap, r.conversations, r.last_op, task)
        /\ recency' = Used(r.heap, r.last_op.ret)
        /\ UNCHANGED <<manager, now, events, task, slack, agent_calls>>

\* lines 94-97: get(channel, thread_ts) reads the dictionary and changes nothing
Get(channel, thread_ts) ==
    LET id == Lookup(make_key(channel, thread_ts))
    IN  /\ last_op' = Op("get", id, <<>>)
        /\ heap' = Collect(heap, conversations, Op("get", id, <<>>), task)
        /\ recency' = Used(heap, id)
        /\ UNCHANGED <<manager, conversations, now, events, task, slack, agent_calls>>

\* lines 99-103: delete(channel, thread_ts)
Delete(channel, thread_ts) ==
    LET id    == Lookup(make_key(channel, thread_ts))
        order == SelectSeq(conversations, LAMBDA x : x # id)
    IN  /\ conversations' = order
        /\ last_op' = Op("delete", 0, <<>>)
        /\ heap' = Collect(heap, order, Op("delete", 0, <<>>), task)
        /\ recency' = Used(heap, 0)
        /\ UNCHANGED <<manager, now, events, task, slack, agent_calls>>

\* lines 119-121: clear_all()
ClearAll ==
    /\ conversations' = <<>>
    /\ last_op' = Op("clear_all", 0, <<>>)
    /\ heap' = Collect(heap, <<>>, Op("clear_all", 0, <<>>), task)
    /\ recency' = Used(heap, 0)
    /\ UNCHANGED <<manager, now, events, task, slack, agent_calls>>

\* the caller that was just handed Conversation id gives it its first message
AddUserMessage(id) ==
    /\ id = last_op.ret
    /\ heap[id].messages = <<>>
    /\ heap' = [heap EXCEPT ![id] = add_user_message(@, 0)]
    /\ recency' = Used(heap, id)
    /\ UNCHANGED <<manager, conversations, now, last_op, events, task, slack,
                   agent_calls>>

\* time passes
Tick ==
    /\ now < MaxNow
    /\ now' = now + 1
    /\ UNCHANGED <<manager, conversations, heap, last_op, recency, events, task,
                   slack, agent_calls>>

\* ConversationManager(max_conversations, ttl_seconds), lines 61-69, with
\* nothing stored and no event delivered
InitChat(capacities, ttls) ==
    /\ manager \in [max_conversations : capacities, ttl_seconds : ttls]
    /\ conversations = <<>>
    /\ heap = [s \in HeapSlots |-> NoConversation]
    /\ now = 0
    /\ last_op = Op("none", 0, <<>>)
    /\ recency = <<>>
    /\ events = <<>>
    /\ task = <<>>
    /\ slack = [ts \in ThreadTs |-> {}]
    /\ agent_calls = <<>>

\* a thread that runs no agent tool
IdleTool ==
    [name |-> "none", pc |-> "idle", account_id |-> None, search_term |-> <<>>,
     keys |-> <<>>, credential |-> Nothing, logged |-> {}, outcome |-> "none",
     text |-> {}]

\* no request and no tool runs yet
InitIdle(environs, stores) ==
    /\ environ \in environs
    /\ ssm \in stores
    /\ db_pool_cache = [e \in EnvTypes |-> 0]
    /\ pools = <<>>
    /\ th = [t \in Threads |-> IdleThread]
    /\ callNo = [t \in Threads |-> 0]
    /\ returned = <<>>
    /\ tool = [t \in Threads |-> IdleTool]

\* a deployment whose chat layer has received nothing
InitWith(environs, stores) ==
    /\ InitIdle(environs, stores)
    /\ InitChat({MaxConversations}, {MaxNow})

\* a step of the request thread t runs
Progress(t) ==
    \/ PoolCheck(t)
    \/ PoolResolve(t)
    \/ PoolCreate(t)
    \/ GetConnection(t)
    \/ Cursor(t)
    \/ SecretTitle(t)
    \/ Execute(t)
    \/ Fetchone(t)
    \/ CursClose(t)
    \/ ConnClose(t)
    \/ DirReturn(t)
    \/ LoadBrokerParameter(t)
    \/ AssumeUser(t)
    \/ AssumeBridge(t)
    \/ AssumeTarget(t)

\* the thread of the sequential specification
MainThread == "t1"

Init ==
    \/ InitWith(Environs, DbStores)
    \/ InitWith({NoEnviron}, BrokerStores)

Next ==
    \/ /\ \E account_id \in AccountIdInputs, env \in EnvTypes \cup {None} :
            CallByAccountId(MainThread, account_id, env)
       /\ UNCHANGED <<toolVars, chatVars>>
    \/ /\ \E corp_name \in CorpNameInputs, env \in EnvTypes \cup {None} :
            CallByCorpName(MainThread, corp_name, env)
       /\ UNCHANGED <<toolVars, chatVars>>
    \/ /\ \E external_id \in ExternalIdInputs, assume_role_type \in AssumeRoleTypeInputs :
            CallAssumedRoleCredential(MainThread, "123456789012", <<"r">>,
                                      external_id, assume_role_type)
       /\ UNCHANGED <<toolVars, chatVars>>
    \/ /\ Progress(MainThread)
       /\ UNCHANGED <<toolVars, chatVars>>

\* requests one after another, over every input and deployment
Spec == Init /\ [][Next]_vars

\* the values of assume_role_type the broker is called with directly: the two
\* of the enum, another spelling, the empty string and None
BrokerTypeInputs == {"User", "Role", "user", "", None}

InitBroker == InitWith({NoEnviron}, {LegacyStore} \cup BrokerStores)

\* get_assumed_role_credential called by itself with any assume_role_type
NextBroker ==
    \/ /\ \E external_id \in ExternalIdInputs, assume_role_type \in BrokerTypeInputs :
            CallAssumedRoleCredential(MainThread, "123456789012", <<"r">>,
                                      external_id, assume_role_type)
       /\ UNCHANGED <<toolVars, chatVars>>
    \/ /\ LoadBrokerParameter(MainThread)
       /\ UNCHANGED <<toolVars, chatVars>>
    \/ /\ AssumeUser(MainThread)
       /\ UNCHANGED <<toolVars, chatVars>>
    \/ /\ AssumeBridge(MainThread)
       /\ UNCHANGED <<toolVars, chatVars>>
    \/ /\ AssumeTarget(MainThread)
       /\ UNCHANGED <<toolVars, chatVars>>

\* the broker alone, over every value of assume_role_type
SpecBroker == InitBroker /\ [][NextBroker]_vars

(***************************************************************************)
(* The agent tools of cloudtrail.py.  A thread runs one tool at a time;    *)
(* the tool calls get_credential_by_account_id and the directory functions *)
(* of credential.py and turns what they return or raise into its result.   *)
(* text and logged are the values interpolated into the returned text and  *)
(* into the log records of the invocation.                                 *)
(***************************************************************************)
\* the four tools that read CloudTrail: the same steps around a different lookup
CloudTrailTools ==
    {"lookup_cloudtrail_events", "get_console_login_events", "get_error_events",
     "analyze_security_events"}

ToolAccountIds == {"111111111111", "222222222222", "999999999999"}

\* search terms that are not twelve digits: two names, a wildcard, one unknown
SearchTerms == { <<"b", "c">>, <<"_">>, <<"z">> }

\* mutant: the exception text also shows the keys of the client that made the call
ExceptionText_withAuth(t) ==
    LET log == th[t].log
        e   == log[Len(log)]
    IN  IF log = <<>> THEN {"Exception"}
        ELSE IF e.ev = "ssm" THEN {"Exception", e.name}
        ELSE {"Exception"} \cup {e.params[k] : k \in DOMAIN e.params}
                           \cup {e.auth[k] : k \in DOMAIN e.auth}

\* str(e) of the exception that left thread t's request: the library's error
\* names the call that failed and echoes at most the parameters of that call
ExceptionText(t) ==
    LET log == th[t].log
        e   == log[Len(log)]
    IN  IF log = <<>> THEN {"Exception"}
        ELSE IF e.ev = "ssm" THEN {"Exception", e.name}
        ELSE {"Exception"} \cup {e.params[k] : k \in DOMAIN e.params}

\* the values in the log records credential.py wrote for thread t's request:
\* line 139 (host, database, user), lines 225 / 300 (the exception the
\* directory caught, counted on every path) and lines 425-428 (account id,
\* corporation name)
LogValues(t) ==
    (IF th[t].db_config = Nothing THEN {}
     ELSE {th[t].db_config[1].host, th[t].db_config[1].database,
           th[t].db_config[1].user})
    \cup (IF th[t].account_id = None THEN {} ELSE {th[t].account_id})
    \cup (IF th[t].account_info = Nothing THEN {}
          ELSE {Join(th[t].account_info[1].corp_name)})
    \cup ExceptionText(t)

\* get_account_info_from_db(account_id, env_type) called by a tool
GetAccountInfoFromDb(account_id, env_type) ==
    [IdleThread EXCEPT !.pc = "pool_check", !.op = "dir_id",
                       !.account_id = account_id, !.env_type = env_type]

\* search_account_by_name(corp_name, env_type) called by a tool
SearchAccountByName(corp_name, env_type) ==
    [IdleThread EXCEPT !.pc = "pool_check", !.op = "dir_name",
                       !.corp_name = corp_name, !.env_type = env_type]

\* a CloudTrail tool is called and asks for the account's credential (lines
\* 137-139, 230-231, 326-327, 449-450): get_credential_by_account_id(account_id)
CallCloudTrailTool(t, name, account_id) ==
    /\ tool[t].pc \in {"idle", "done"}
    /\ CallByAccountId(t, account_id, None)
    /\ tool' = [tool EXCEPT ![t] = [IdleTool EXCEPT !.name = name,
                   !.pc = "credential", !.account_id = account_id,
                   !.keys = <<EnvArg(None)>>]]

\* the tool's except clause (lines 203-205): the error is logged and returned
\* as text
ToolCaught(t) ==
    [tool[t] EXCEPT !.pc = "done", !.outcome = "text",
                    !.text = ExceptionText(t),
                    !.logged = @ \cup LogValues(t) \cup ExceptionText(t)]

\* lines 139-141: the credential request is over; no credential -> a text
CredentialReturn(t) ==
    /\ tool[t].pc = "credential"
    /\ th[t].pc = "done"
    /\ tool' = [tool EXCEPT ![t] =
                  IF th[t].outcome = "raised" THEN ToolCaught(t)
                  ELSE IF th[t].result = Nothing
                  THEN [@ EXCEPT !.pc = "done", !.outcome = "text",
                                 !.text = {tool[t].account_id},
                                 !.logged = @ \cup LogValues(t)]
                  ELSE [@ EXCEPT !.pc = "lookup", !.credential = th[t].result,
                                 !.logged = @ \cup LogValues(t)]]
    /\ UNCHANGED <<environ, ssm, db_pool_cache, pools, th, callNo, returned>>

\* lines 144-182: the client is built with the credential, the query is logged
\* (account, region, parameters) and sent; an error goes to the except clause,
\* no events is a text, and events make the tool ask the directory for the
\* corporation name: get_account_info_from_db(account_id), env_type defaulted
LookupEvents(t) ==
    /\ tool[t].pc = "lookup"
    /\ \E response \in {"raises", "empty", "events"} :
         IF response = "events"
         THEN /\ th' = [th EXCEPT ![t] = GetAccountInfoFromDb(tool[t].account_id, "dev")]
              /\ tool' = [tool EXCEPT ![t].pc = "directory",
                                      ![t].keys = Append(@, "dev"),
                                      ![t].logged = @ \cup {tool[t].account_id}]
         ELSE /\ tool' = [tool EXCEPT ![t].pc = "done", ![t].outcome = "text",
                              ![t].text = IF response = "raises"
                                          THEN {"Exception", "LookupEvents"}
                                          ELSE {tool[t].account_id},
                              ![t].logged = @ \cup {tool[t].account_id}
                                  \cup (IF response = "raises"
                                        THEN {"Exception", "LookupEvents"} ELSE {})]
              /\ UNCHANGED th
    /\ UNCHANGED <<environ, ssm, db_pool_cache, pools, callNo, returned>>

\* search_account with a twelve-digit term (lines 599-603)
SearchAccountById(t, search_term) ==
    /\ tool[t].pc \in {"idle", "done"}
    /\ th[t].pc \in {"idle", "done"}
    /\ callNo[t] < MaxCalls
    /\ th' = [th EXCEPT ![t] = GetAccountInfoFromDb(search_term, EnvArg(None))]
    /\ callNo' = [callNo EXCEPT ![t] = @ + 1]
    /\ tool' = [tool EXCEPT ![t] = [IdleTool EXCEPT !.name = "search_account",
                   !.pc = "directory", !.account_id = search_term,
                   !.keys = <<EnvArg(None)>>]]
    /\ UNCHANGED <<environ, ssm, db_pool_cache, pools, returned>>

\* search_account with any other term (lines 599, 615)
SearchAccountByTerm(t, search_term) ==
    /\ tool[t].pc \in {"idle", "done"}
    /\ th[t].pc \in {"idle", "done"}
    /\ callNo[t] < MaxCalls
    /\ th' = [th EXCEPT ![t] = SearchAccountByName(search_term, EnvArg(None))]
    /\ callNo' = [callNo EXCEPT ![t] = @ + 1]
    /\ tool' = [tool EXCEPT ![t] = [IdleTool EXCEPT !.name = "search_account",
                   !.pc = "directory", !.search_term = search_term,
                   !.keys = <<EnvArg(None)>>]]
    /\ UNCHANGED <<environ, ssm, db_pool_cache, pools, returned>>

\* the directory function a tool called is over (lines 182-201, 603-624): its
\* exception reaches the except clause of a CloudTrail tool and leaves
\* search_account, which has none; a record or None is formatted into the text
DirectoryReturn(t) ==
    /\ tool[t].pc = "directory"
    /\ th[t].pc = "dir_done"
    /\ th[t].op \in {"dir_id", "dir_name"}
    /\ th' = [th EXCEPT ![t].pc = "done", ![t].result = th[t].dir_ret,
                        ![t].outcome = IF th[t].dir_exc THEN "raised" ELSE "returned"]
    /\ tool' = [tool EXCEPT ![t] =
                  IF th[t].dir_exc
                  THEN IF @.name = "search_account"
                       THEN [@ EXCEPT !.pc = "done", !.outcome = "raised",
                                      !.logged = @ \cup LogValues(t)]
                       ELSE ToolCaught(t)
                  ELSE [@ EXCEPT !.pc = "done", !.outcome = "text",
                           !.logged = @ \cup LogValues(t),
                           !.text = IF th[t].dir_ret = Nothing
                                    THEN {"Unknown", tool[t].account_id,
                                          Join(tool[t].search_term)}
                                    ELSE {Join(th[t].dir_ret[1].corp_name),
                                          th[t].dir_ret[1].account_id,
                                          th[t].dir_ret[1].assume_role_type}]]
    /\ UNCHANGED <<environ, ssm, db_pool_cache, pools, callNo, returned>>

\* deployments of the tools: ENV_TYPE unset or prd, a store with and without
\* the long-lived secret key
ToolEnvirons == {NoEnviron, [NoEnviron EXCEPT !["ENV_TYPE"] = "prd"]}

InitTools ==
    InitWith(ToolEnvirons, {LegacyStore, Without(LegacyStore, CROSSACCOUNT_SECRET_KEY)})

NextTools ==
    \/ /\ \E name \in CloudTrailTools, account_id \in ToolAccountIds :
            CallCloudTrailTool(MainThread, name, account_id)
       /\ UNCHANGED chatVars
    \/ /\ \E search_term \in ToolAccountIds : SearchAccountById(MainThread, search_term)
       /\ UNCHANGED chatVars
    \/ /\ \E search_term \in SearchTerms : SearchAccountByTerm(MainThread, search_term)
       /\ UNCHANGED chatVars
    \/ /\ Progress(MainThread)
       /\ UNCHANGED <<toolVars, chatVars>>
    \/ /\ CredentialReturn(MainThread)
       /\ UNCHANGED chatVars
    \/ /\ LookupEvents(MainThread)
       /\ UNCHANGED chatVars
    \/ /\ DirectoryReturn(MainThread)
       /\ UNCHANGED chatVars

\* the agent calls its tools one after another
SpecTools == InitTools /\ [][NextTools]_vars

\* managers of every capacity from 1, with a short and a long time to live
InitManager ==
    /\ InitIdle({NoEnviron}, {LegacyStore})
    /\ InitChat(1..MaxConversations, {1, MaxNow})

NextManager ==
    \/ /\ \E thread_ts \in ThreadTs : GetOrCreate(Channel, thread_ts)
       /\ UNCHANGED <<credVars, toolVars>>
    \/ /\ \E thread_ts \in ThreadTs : Get(Channel, thread_ts)
       /\ UNCHANGED <<credVars, toolVars>>
    \/ /\ \E thread_ts \in ThreadTs : Delete(Channel, thread_ts)
       /\ UNCHANGED <<credVars, toolVars>>
    \/ /\ ClearAll
       /\ UNCHANGED <<credVars, toolVars>>
    \/ /\ \E id \in HeapSlots : AddUserMessage(id)
       /\ UNCHANGED <<credVars, toolVars>>
    \/ /\ Tick
       /\ UNCHANGED <<credVars, toolVars>>

\* the operations of the ConversationManager in any order
SpecManager == InitManager /\ [][NextManager]_vars

(***************************************************************************)
(* slack_handler.py: the two asynchronous handlers.  Slack delivers a      *)
(* message event for every message and an app_mention event besides when   *)
(* the text mentions the bot.  A handler runs on the event loop until it   *)
(* awaits; process_message is an ordinary call, so building the prompt,    *)
(* storing the question, the agent's run and storing the reply are one     *)
(* step.  A text is the sequence of its tokens.                            *)
(***************************************************************************)
\* the messages that arrive: a question that mentions the bot, a bare mention,
\* a plain text, a text that mentions another user, a message of another bot
\* and an edit
EventKinds == {"mention", "greeting", "plain", "other_mention", "bot", "subtype"}

\* the event payload of a message of the given kind
Event(thread_ts, in_thread, kind) ==
    [thread_ts |-> thread_ts, in_thread |-> in_thread,
     bot_id |-> IF kind = "bot" THEN "B2" ELSE None,
     subtype |-> IF kind = "subtype" THEN "message_changed" ELSE None,
     text |-> IF kind = "mention" THEN <<"<@UBOT>", "q">>
              ELSE IF kind = "greeting" THEN <<"<@UBOT>">>
              ELSE IF kind = "other_mention" THEN <<"<@U2>", "q">>
              ELSE <<"q">>]

\* the tokens that r'<@[A-Z0-9]+>' matches
IsMention(token) == token \in {"<@UBOT>", "<@U2>"}

\* line 161: re.search(r'<@[A-Z0-9]+>', text)
HasMention(text) == \E i \in 1..Len(text) : IsMention(text[i])

\* line 64: re.sub(r'<@[A-Z0-9]+>', '', text).strip()
clean_text(text) == SelectSeq(text, LAMBDA token : ~IsMention(token))

\* Slack sends app_mention for a text that mentions this bot
MentionsBot(text) == \E i \in 1..Len(text) : text[i] = "<@UBOT>"

\* the threads of the channel in which messages arrive
SlackThreads == {"1", "2"}

\* a handler that was not started, one that was dispatched, one that returned
NoTask == [pc |-> "none", conv |-> 0, participated |-> FALSE]

StartTask == [pc |-> "start", conv |-> 0, participated |-> FALSE]

DoneTask == [pc |-> "done", conv |-> 0, participated |-> FALSE]

\* agent.py lines 137-202: process_message returns a text on every path; the
\* text answers the question of the prompt
process_message(prompt) == prompt.question

\* a message arrives in the channel: at top level (it starts the thread of its
\* own ts) or in a thread
Deliver(thread_ts, in_thread, kind) ==
    /\ Len(events) < MaxEvents
    /\ ~in_thread =>
         /\ slack[thread_ts] = {}
         /\ \A e \in 1..Len(events) : events[e].thread_ts # thread_ts
    /\ events' = Append(events, Event(thread_ts, in_thread, kind))
    /\ task' = Append(task,
                  [app_mention |-> IF MentionsBot(Event(thread_ts, in_thread, kind).text)
                                   THEN StartTask ELSE NoTask,
                   message |-> StartTask])
    /\ slack' = IF kind = "bot" THEN [slack EXCEPT ![thread_ts] = @ \cup {"other"}]
                ELSE slack
    /\ UNCHANGED <<manager, conversations, heap, now, last_op, recency, agent_calls>>

\* the handler of event e obtains the thread's conversation with get_or_create
\* and posts its progress message: lines 79-83 / 188-193, up to the await
Join_thread(e, h) ==
    LET ts == events[e].thread_ts
        r  == get_or_create(Channel, ts)
    IN  /\ conversations' = r.conversations
        /\ last_op' = r.last_op
        /\ task' = [task EXCEPT ![e][h] = [pc |-> "say", conv |-> r.last_op.ret,
                                           participated |-> "self" \in slack[ts]]]
        /\ heap' = Collect(r.heap, r.conversations, r.last_op, task')
        /\ recency' = Used(r.heap, r.last_op.ret)
        /\ slack' = [slack EXCEPT ![ts] = @ \cup {"self"}]
        /\ UNCHANGED <<manager, now, events, agent_calls>>

\* handle_app_mention, lines 53-83: an empty text is answered with a greeting;
\* otherwise the conversation is obtained and the progress message is posted
HandleAppMention(e) ==
    /\ task[e].app_mention.pc = "start"
    /\ IF clean_text(events[e].text) = <<>>
       THEN /\ task' = [task EXCEPT ![e].app_mention = DoneTask]
            /\ slack' = [slack EXCEPT ![events[e].thread_ts] = @ \cup {"self"}]
            /\ UNCHANGED <<manager, conversations, heap, now, last_op, recency, events,
                           agent_calls>>
       ELSE Join_thread(e, "app_mention")

\* handle_message, lines 146-193: the filters, then get; a stored conversation
\* is continued, an unknown thread is looked up in Slack
HandleMessage(e) ==
    /\ task[e].message.pc = "start"
    /\ LET ev == events[e]
           id == Lookup(make_key(Channel, ev.thread_ts))
       IN  IF \/ ~Falsy(ev.bot_id)
              \/ ~Falsy(ev.subtype)
              \/ ~ev.in_thread
              \/ HasMention(ev.text)
           THEN /\ task' = [task EXCEPT ![e].message = DoneTask]
                /\ UNCHANGED <<manager, conversations, heap, now, last_op, recency,
                               events, slack, agent_calls>>
           ELSE /\ last_op' = Op("get", id, <<>>)
                /\ task' = [task EXCEPT ![e].message =
                              IF id # 0
                              THEN [pc |-> "say", conv |-> id,
                                    participated |-> "self" \in slack[ev.thread_ts]]
                              ELSE [pc |-> "replies", conv |-> 0, participated |-> FALSE]]
                /\ heap' = Collect(heap, conversations, Op("get", id, <<>>), task')
                /\ recency' = Used(heap, id)
                /\ slack' = IF id # 0
                            THEN [slack EXCEPT ![ev.thread_ts] = @ \cup {"self"}]
                            ELSE slack
                /\ UNCHANGED <<manager, conversations, now, events, agent_calls>>

\* lines 174-193: conversations_replies answered; a thread without a message
\* that has a bot_id is ignored, otherwise its conversation is created
HandleReplies(e) ==
    /\ task[e].message.pc = "replies"
    /\ IF slack[events[e].thread_ts] = {}
       THEN /\ task' = [task EXCEPT ![e].message = DoneTask]
            /\ UNCHANGED <<manager, conversations, heap, now, last_op, recency, events,
                           slack, agent_calls>>
       ELSE Join_thread(e, "message")

\* lines 89-103 / 199-213: the prompt is built from the conversation, the
\* question is stored, the agent runs and its reply is stored; the handler
\* then updates its progress message and returns
Respond(e, h) ==
    /\ task[e][h].pc = "say"
    /\ LET id       == task[e][h].conv
           prompt   == build_contextual_prompt(e, heap[id])
           response == process_message(prompt)
           objects  == [heap EXCEPT ![id] =
                           add_assistant_message(add_user_message(@, e), response)]
       IN  /\ task' = [task EXCEPT ![e][h] = DoneTask]
           /\ heap' = Collect(objects, conversations, last_op, task')
           /\ recency' = Used(objects, id)
           /\ agent_calls' = Append(agent_calls,
                                 [event |-> e, handler |-> h, prompt |-> prompt,
                                  participated |-> task[e][h].participated])
    /\ UNCHANGED <<manager, conversations, now, last_op, events, slack>>

InitSlack ==
    /\ InitIdle({NoEnviron}, {LegacyStore})
    /\ InitChat({1, MaxConversations}, {MaxNow})

NextSlack ==
    \/ /\ \E thread_ts \in SlackThreads, in_thread \in BOOLEAN, kind \in EventKinds :
            Deliver(thread_ts, in_thread, kind)
       /\ UNCHANGED <<credVars, toolVars>>
    \/ /\ \E e \in 1..Len(events) : HandleAppMention(e)
       /\ UNCHANGED <<credVars, toolVars>>
    \/ /\ \E e \in 1..Len(events) : HandleMessage(e)
       /\ UNCHANGED <<credVars, toolVars>>
    \/ /\ \E e \in 1..Len(events) : HandleReplies(e)
       /\ UNCHANGED <<credVars, toolVars>>
    \/ /\ \E e \in 1..Len(events), h \in {"app_mention", "message"} : Respond(e, h)
       /\ UNCHANGED <<credVars, toolVars>>

\* the handlers of the delivered events interleave at their awaits
SpecSlack == InitSlack /\ [][NextSlack]_vars

InitConcurrent == InitWith({NoEnviron}, {LegacyStore})

\* each thread runs its first request; the two requests overlap freely
NextConcurrent ==
    \E t \in Threads :
        \/ /\ callNo[t] = 0
           /\ \E account_id \in {"111111111111", "222222222222", "999999999999"},
                 env \in {None, "prd"} :
                CallByAccountId(t, account_id, env)
           /\ UNCHANGED <<toolVars, chatVars>>
        \/ /\ callNo[t] = 0
           /\ \E env \in {None, "prd"} : CallByCorpName(t, <<"b", "c">>, env)
           /\ UNCHANGED <<toolVars, chatVars>>
        \/ /\ Progress(t)
           /\ UNCHANGED <<toolVars, chatVars>>

\* concurrent requests: the threads interleave at every blocking call
SpecConcurrent == InitConcurrent /\ [][NextConcurrent]_vars

(***************************************************************************)
(* Properties of the credential broker.                                    *)
(***************************************************************************)
\* the assume_role calls of thread t's request, in the order they were made
StsCalls(t) == SelectSeq(th[t].log, LAMBDA e : e.ev = "sts")

\* the broker's configuration fetches of thread t's request, in order
BrokerFetches(t) ==
    SelectSeq(th[t].log, LAMBDA e : e.ev = "ssm" /\ e.name \in BrokerParams)

\* the broker was entered for t's request and takes the bridge path
OnRolePath(t) ==
    th[t].account_info # Nothing /\ th[t].account_info[1].assume_role_type # "User"

\* the broker was entered for t's request and takes the single-hop path
OnUserPath(t) ==
    th[t].account_info # Nothing /\ th[t].account_info[1].assume_role_type = "User"

\* the request of t returned a credential triple
ReturnedCredential(t) ==
    th[t].pc = "done" /\ th[t].outcome = "returned" /\ th[t].result # Nothing

\* C1: on the Role path at most two assume_role calls are made, exactly two when
\* a credential is returned; the first assumes the bridge role with ambient
\* credentials and the bridge external id, and the second is made only after the
\* first returned credentials, by a client holding exactly the access key id,
\* secret key and session token the first call returned.
C1_BridgeThenTarget ==
    \A t \in Threads :
        OnRolePath(t) =>
            LET calls == StsCalls(t)
            IN  /\ Len(calls) <= 2
                /\ ReturnedCredential(t) => Len(calls) = 2
                /\ Len(calls) >= 1 =>
                     /\ calls[1].auth = AmbientAuth
                     /\ calls[1].params.RoleArn =
                          RoleArn(ssm[CROSSACCOUNT_BRIDGE_ACCOUNDID],
                                  ssm[CROSSACCOUNT_BRIDGE_ROLENAME])
                     /\ calls[1].params.ExternalId = ssm[CROSSACCOUNT_BRIDGE_EXTERNALID]
                /\ Len(calls) = 2 =>
                     /\ calls[1].ok
                     /\ calls[2].params.RoleArn =
                          RoleArn(th[t].account_info[1].account_id,
                                  Join(th[t].account_info[1].role_name))
                     /\ calls[2].auth.aws_access_key_id = calls[1].creds[1].AccessKeyId
                     /\ calls[2].auth.aws_secret_access_key =
                          calls[1].creds[1].SecretAccessKey
                     /\ calls[2].auth.aws_session_token = calls[1].creds[1].SessionToken

\* a Role-path request returned a credential after both calls
C1_Witness ==
    \E t \in Threads :
        OnRolePath(t) /\ ReturnedCredential(t) /\ Len(StsCalls(t)) = 2

\* C2: on the User path at most one assume_role call is made, exactly one when a
\* credential is returned; it is authenticated by the key pair loaded from the
\* parameter store, not by ambient credentials, it carries no ExternalId
\* whatever external id the record holds, and no bridge parameter is fetched.
C2_UserSingleHop ==
    \A t \in Threads :
        OnUserPath(t) =>
            LET calls == StsCalls(t)
            IN  /\ Len(calls) <= 1
                /\ ReturnedCredential(t) => Len(calls) = 1
                /\ \A i \in 1..Len(calls) :
                     /\ calls[i].auth.aws_access_key_id = ssm[CROSSACCOUNT_ACCESS_KEY]
                     /\ calls[i].auth.aws_secret_access_key = ssm[CROSSACCOUNT_SECRET_KEY]
                     /\ calls[i].auth # AmbientAuth
                     /\ "ExternalId" \notin DOMAIN calls[i].params
                     /\ calls[i].params.RoleArn =
                          RoleArn(th[t].account_info[1].account_id,
                                  Join(th[t].account_info[1].role_name))
                /\ \A i \in 1..Len(th[t].log) :
                     th[t].log[i].ev = "ssm" =>
                        th[t].log[i].name \notin {CROSSACCOUNT_BRIDGE_ACCOUNDID,
                                                  CROSSACCOUNT_BRIDGE_EXTERNALID,
                                                  CROSSACCOUNT_BRIDGE_ROLENAME}

\* a User-type record with a non-empty external id got its credential
C2_Witness ==
    \E t \in Threads :
        /\ OnUserPath(t) /\ ReturnedCredential(t)
        /\ th[t].account_info[1].external_id = "ext-2"
        /\ Len(StsCalls(t)) = 1

\* on the Role path: the call that follows the bridge call, if it was made
TargetCalls(t) == SubSeq(StsCalls(t), 2, Len(StsCalls(t)))

\* C3: on the Role path the target call carries ExternalId exactly when the
\* external id passed to the broker is neither empty nor null, and then its
\* value is that external id, not the bridge's.
C3_ExternalIdIffSupplied ==
    \A t \in Threads :
        OnRolePath(t) =>
            \A i \in 1..Len(TargetCalls(t)) :
                LET prm == TargetCalls(t)[i].params
                    ext == th[t].account_info[1].external_id
                IN  /\ ("ExternalId" \in DOMAIN prm) <=> ~(ext = None \/ ext = "")
                    /\ "ExternalId" \in DOMAIN prm =>
                         /\ prm.ExternalId = ext
                         /\ prm.ExternalId # ssm[CROSSACCOUNT_BRIDGE_EXTERNALID]

\* a target call went out with the record's external id
C3_Witness ==
    \E t \in Threads :
        /\ OnRolePath(t)
        /\ th[t].account_info[1].external_id = "ext-1"
        /\ Len(TargetCalls(t)) = 1
        /\ TargetCalls(t)[1].params.ExternalId = "ext-1"

\* the ids of the account table, and whether a term matches a corporation
StoredAccountIds == {a.account_id : a \in account}

TermMatches(term) == \E c \in corporation : Contains(c.corp_name, term)

\* the request of t asks for an account the directory does not hold
AsksAbsent(t) ==
    \/ th[t].op = "by_id" /\ th[t].account_id \notin StoredAccountIds
    \/ th[t].op = "by_name" /\ ~TermMatches(th[t].corp_name)

\* C4: a request whose directory lookup gives no record (in particular every
\* request for an account id or search term the directory does not hold) makes no
\* assume_role call and no broker configuration fetch, and when it returns it
\* returns None.
C4_AbsentMakesNoIdentityCall ==
    \A t \in Threads :
        (AsksAbsent(t) \/ (th[t].op # "none" /\ th[t].account_info = Nothing)) =>
            /\ StsCalls(t) = <<>>
            /\ BrokerFetches(t) = <<>>
            /\ th[t].outcome = "returned" => th[t].result = Nothing

\* the query for an absent account id ran, found no row, and None was returned
C4_Witness ==
    \E t \in Threads :
        /\ th[t].op = "by_id" /\ th[t].account_id = "999999999999"
        /\ th[t].secret_title # None /\ th[t].curs = "closed"
        /\ th[t].pc = "done" /\ th[t].outcome = "returned" /\ th[t].result = Nothing

\* the broker's calls of t's request: configuration fetches and assume_role calls
BrokerCalls(t) ==
    SelectSeq(th[t].log, LAMBDA e : e.ev = "sts" \/ e.name \in BrokerParams)

\* what identifies a broker call: the parameter fetched or the role assumed
CallKey(e) == IF e.ev = "ssm" THEN e.name ELSE e.params.RoleArn

\* C5: when a configuration fetch or an assume_role call of the broker fails, it
\* is the last call of the invocation, the invocation ends with the exception
\* and returns no credential; and no fetch or assumption is issued twice within
\* one invocation.
C5_FailFastNoRetry ==
    \A t \in Threads :
        LET calls == BrokerCalls(t)
        IN  /\ \A i \in 1..Len(calls) :
                 ~calls[i].ok =>
                    /\ i = Len(calls)
                    /\ th[t].pc = "done"
                    /\ th[t].outcome = "raised"
                    /\ th[t].result = Nothing
            /\ \A i, j \in 1..Len(calls) :
                 i # j => CallKey(calls[i]) # CallKey(calls[j])
            /\ (th[t].account_info # Nothing /\ th[t].pc = "done"
                /\ th[t].outcome = "returned") =>
                   \A i \in 1..Len(calls) : calls[i].ok

\* the bridge role was assumed, the target assumption failed, nothing was returned
C5_Witness ==
    \E t \in Threads :
        /\ Len(StsCalls(t)) = 2
        /\ StsCalls(t)[1].ok /\ ~StsCalls(t)[2].ok
        /\ th[t].pc = "done" /\ th[t].outcome = "raised" /\ th[t].result = Nothing

(***************************************************************************)
(* Properties of the connection-pool cache.                                *)
(***************************************************************************)
\* the pool objects constructed for environment key k
PoolsFor(k) == {i \in 1..Len(pools) : pools[i].key = k}

\* C6: for requests made one after another, two get_db_connection_pool returns
\* carry the same pool object exactly when they were for the same key; at most
\* one pool is ever resolved and constructed for a key, and once it is cached
\* the cache keeps holding that very pool.
C6_PoolIdempotent ==
    /\ \A i, j \in 1..Len(returned) :
         (returned[i][1] = returned[j][1]) <=> (returned[i][2] = returned[j][2])
    /\ \A k \in EnvTypes :
         /\ Cardinality(PoolsFor(k)) <= 1
         /\ PoolsFor(k) # {} => db_pool_cache[k] \in PoolsFor(k)
         /\ db_pool_cache[k] # 0 => db_pool_cache[k] \in PoolsFor(k)

\* the pool of one key was returned by two calls
C6_Witness ==
    \E i, j \in 1..Len(returned) : i < j /\ returned[i] = returned[j]

\* C7: exactly one pool is ever constructed per environment key, also when two
\* requests make the first call for the key concurrently, and all calls for the
\* key get that one pool.
C7_OnePoolPerKey ==
    /\ \A k \in EnvTypes : Cardinality(PoolsFor(k)) <= 1
    /\ \A i, j \in 1..Len(returned) :
         returned[i][1] = returned[j][1] => returned[i][2] = returned[j][2]

(***************************************************************************)
(* Properties of the account directory.                                    *)
(***************************************************************************)
\* C8: the directory query never raises to its caller, and gives None for an
\* account the directory does not hold.
C8_DirectoryNeverRaises ==
    \A t \in Threads :
        /\ ~th[t].dir_exc
        /\ (th[t].pc = "dir_done" /\ AsksAbsent(t)) => th[t].dir_ret = Nothing

\* the positions inside the directory query
QueryPcs == {"pool_check", "pool_settings", "pool_create", "get_connection",
             "cursor", "secret_title", "execute", "fetchone", "finally_curs",
             "finally_conn"}

\* C9: once a directory query has returned or raised, the connection it acquired
\* is closed, and with no query running no connection of any pool is leased.
C9_ConnectionReleased ==
    /\ \A t \in Threads : th[t].pc \notin QueryPcs => th[t].conn # "open"
    /\ (\A t \in Threads : th[t].pc \notin QueryPcs) =>
          \A i \in 1..Len(pools) : pools[i].leased = 0

\* the record of the stored tuple of account a of corporation c
StoredRecord(c, a) ==
    [corp_id |-> c.corp_id, corp_name |-> c.corp_name, account_id |-> a.account_id,
     role_name |-> a.role, assume_role_type |-> a.assume_role_type,
     external_id |-> IF a.external_id = None THEN "" ELSE a.external_id]

\* C10: the record get_account_info_from_db returns for an account id is the
\* stored tuple of that account: corp_id, corp_name, account_id, the decrypted
\* role name unchanged, assume_role_type and external_id.
C10_RecordEqualsStoredTuple ==
    \A t \in Threads :
        (th[t].op = "by_id" /\ th[t].dir_ret # Nothing) =>
            \E c \in corporation, a \in account :
                /\ a.account_id = th[t].account_id
                /\ a.corp_id = c.corp_id
                /\ th[t].dir_ret[1] = StoredRecord(c, a)

\* C11: every record a directory lookup returns carries a non-empty role name,
\* also when the stored role name consists of the letter b only and the driver
\* hands it over as bytes.
C11_RoleNameNonEmpty ==
    \A t \in Threads :
        th[t].dir_ret # Nothing => th[t].dir_ret[1].role_name # <<>>

(***************************************************************************)
(* Properties of the configuration resolver.                               *)
(***************************************************************************)
\* the parameter-store reads of t's request: the event at position i read name
Reads(t, i, name) == th[t].log[i].ev = "ssm" /\ th[t].log[i].name = name

\* C12: the secret label a lookup works with is the override's value when the
\* override is set, else the primary path's value when it is defined, else the
\* legacy path's; the primary path is read only when the override is absent and
\* the legacy path only when the override and the primary path are both absent.
C12_SecretTitlePrecedence ==
    \A t \in Threads :
        LET override == environ["DB_SECRET_TITLE"]
            primary  == ssm[PrimaryTitlePath(th[t].env_type)]
            legacy   == ssm[LegacyTitlePath(th[t].env_type)]
        IN  /\ th[t].secret_title # None =>
                 th[t].secret_title =
                     IF override # None /\ override # "" THEN override
                     ELSE IF primary # None THEN primary
                     ELSE legacy
            /\ \A i \in 1..Len(th[t].log) :
                 /\ Reads(t, i, PrimaryTitlePath(th[t].env_type)) =>
                        (override = None \/ override = "")
                 /\ Reads(t, i, LegacyTitlePath(th[t].env_type)) =>
                        (override = None \/ override = "") /\ primary = None

\* override, primary and legacy hold three different values and the lookup
\* works with the override's, having read no title path
C12_Witness ==
    \E t \in Threads :
        LET override == environ["DB_SECRET_TITLE"]
            primary  == ssm[PrimaryTitlePath(th[t].env_type)]
            legacy   == ssm[LegacyTitlePath(th[t].env_type)]
        IN  /\ th[t].pc = "execute"
            /\ Cardinality({override, primary, legacy, None, ""}) = 5
            /\ th[t].secret_title = override
            /\ th[t].log = <<>>

\* the tier of get_db_connection_pool that supplies the host in this deployment
HostTier ==
    IF environ["DB_HOST"] # None /\ environ["DB_HOST"] # "" THEN "a"
    ELSE IF ssm[fitcloud_ssm_prefix \o "/host"] # None THEN "b"
    ELSE "c"

\* what tier `tier` holds for the four settings, for environment key k
TierSettings(tier, k) ==
    IF tier = "a"
    THEN [host |-> environ["DB_HOST"], user |-> environ["DB_USER"],
          password |-> environ["DB_PASSWORD"], database |-> environ["DB_NAME"]]
    ELSE IF tier = "b"
    THEN [host |-> ssm[fitcloud_ssm_prefix \o "/host"],
          user |-> ssm[fitcloud_ssm_prefix \o "/id"],
          password |-> ssm[fitcloud_ssm_prefix \o "/pw"], database |-> "edp"]
    ELSE [host |-> ssm[LegacyDbPath(k, "host")],
          user |-> ssm[LegacyDbPath(k, "user/admin/id")],
          password |-> ssm[LegacyDbPath(k, "user/admin/pw")],
          database |-> ssm[LegacyDbPath(k, "db")]]

C14_EachVariableIndependently ==
    \A i \in 1..Len(pools) :
        LET cfg == pools[i].db_config
        IN  /\ environ["DB_HOST"] # None => cfg.host = environ["DB_HOST"]
            /\ environ["DB_USER"] # None => cfg.user = environ["DB_USER"]
            /\ environ["DB_PASSWORD"] # None => cfg.password = environ["DB_PASSWORD"]
            /\ environ["DB_NAME"] # None => cfg.database = environ["DB_NAME"]
            /\ environ["DB_PORT"] # None => cfg.port = ParseInt(environ["DB_PORT"])
            /\ cfg.host # None /\ cfg.user # None /\ cfg.password # None
            /\ cfg.database # None

\* no tier holds a host for environment key k, and DB_PORT is a number
NoHost(k) ==
    /\ environ["DB_HOST"] = None \/ environ["DB_HOST"] = ""
    /\ ssm[fitcloud_ssm_prefix \o "/host"] = None
    /\ ssm[LegacyDbPath(k, "host")] = None
    /\ environ["DB_PORT"] = None \/ environ["DB_PORT"] \in IntTexts

\* the reads of a resolution that finds no host: each host path once
NoHostReads(k) ==
    <<[ev |-> "ssm", name |-> fitcloud_ssm_prefix \o "/host", ok |-> FALSE],
      [ev |-> "ssm", name |-> LegacyDbPath(k, "host"), ok |-> FALSE]>>

\* C15: when no tier holds a host, the settings step of get_db_connection_pool
\* leaves by the exception of the strict read, after one read of each host path;
\* no pool is constructed, the cache is unchanged, nothing is returned; and a
\* later call for the key finds no cached pool and resolves the settings again.
C15_NoHostFailsWithoutCaching ==
    [][\A t \in Threads :
         /\ (th[t].pc = "pool_settings" /\ NoHost(th[t].env_type) /\ th'[t] # th[t]) =>
               /\ th'[t].dir_exc
               /\ th'[t].pc = "dir_done"
               /\ th'[t].log = th[t].log \o NoHostReads(th[t].env_type)
               /\ pools' = pools
               /\ db_pool_cache' = db_pool_cache
               /\ returned' = returned
         /\ (th[t].pc = "pool_check" /\ NoHost(th[t].env_type) /\ th'[t] # th[t]) =>
               /\ db_pool_cache[th[t].env_type] = 0
               /\ th'[t].pc = "pool_settings"]_vars

\* a thread's second request failed for want of a host, with nothing cached
C15_Witness ==
    \E t \in Threads :
        /\ callNo[t] = 2
        /\ NoHost(th[t].env_type)
        /\ th[t].dir_exc
        /\ th[t].log = NoHostReads(th[t].env_type)
        /\ db_pool_cache[th[t].env_type] = 0
        /\ PoolsFor(th[t].env_type) = {}

\* C16: get_credential_by_account_id and get_credential_by_corp_name never end
\* with an exception.
C16_NoErrorEscapes ==
    \A t \in Threads :
        th[t].op \in {"by_id", "by_name"} => th[t].outcome # "raised"

\* no source holds a secret label for environment key k
NoTitleSource(k) ==
    /\ environ["DB_SECRET_TITLE"] = None \/ environ["DB_SECRET_TITLE"] = ""
    /\ ssm[PrimaryTitlePath(k)] = None
    /\ ssm[LegacyTitlePath(k)] = None

\* C17: when the override is unset or empty and neither title path is defined,
\* _get_db_secret_title raises: the lookup gets no label, runs no query and
\* goes on in its except clause.
C17_NoTitleSourceRaises ==
    /\ \A k \in EnvTypes : NoTitleSource(k) => get_db_secret_title(k).raised
    /\ \A t \in Threads :
         NoTitleSource(th[t].env_type) =>
            /\ th[t].secret_title = None
            /\ th[t].pc \notin {"execute", "fetchone"}
            /\ th[t].dir_ret = Nothing

\* the empty override and two absent title paths were tried, the except clause ran
C17_Witness ==
    \E t \in Threads :
        /\ environ["DB_SECRET_TITLE"] = ""
        /\ NoTitleSource(th[t].env_type)
        /\ th[t].curs = "open"
        /\ th[t].pc = "finally_curs"
        /\ Len(th[t].log) = 2
        /\ Reads(t, 2, LegacyTitlePath(th[t].env_type)) /\ ~th[t].log[2].ok

\* the paths read with _load_parameter_safe
SafePaths == TierBParams \cup {PrimaryTitlePath(e) : e \in EnvTypes}

\* C18: for an absent parameter the safe helper gives None and the strict one
\* raises; after a failed safe read of a host or title path the next tier's path
\* is read, and a failed strict read is the last call of its function, which
\* leaves by the exception.
C18_SafeContinuesStrictRaises ==
    /\ \A p \in AllParams :
         ssm[p] = None => load_parameter_safe(p) = None /\ load_parameter_raises(p)
    /\ \A t \in Threads : \A i \in 1..Len(th[t].log) :
         (th[t].log[i].ev = "ssm" /\ ~th[t].log[i].ok) =>
            /\ Reads(t, i, PrimaryTitlePath(th[t].env_type)) =>
                  i < Len(th[t].log) /\ Reads(t, i + 1, LegacyTitlePath(th[t].env_type))
            /\ Reads(t, i, fitcloud_ssm_prefix \o "/host") =>
                  i < Len(th[t].log)
                  /\ Reads(t, i + 1, LegacyDbPath(th[t].env_type, "host"))
            /\ th[t].log[i].name \notin SafePaths =>
                  /\ i = Len(th[t].log)
                  /\ th[t].pc \in {"finally_curs", "finally_conn", "dir_done", "done"}
                  /\ th[t].log[i].name \in BrokerParams => th[t].outcome = "raised"
                  /\ (\E l \in LegacyDbLeaves :
                        th[t].log[i].name = LegacyDbPath(th[t].env_type, l)) =>
                          th[t].dir_exc
                  /\ th[t].log[i].name = LegacyTitlePath(th[t].env_type) =>
                          th[t].secret_title = None /\ th[t].dir_ret = Nothing

\* the safe read of the secondary host failed, the legacy user was read next to
\* the legacy host and its strict read failed
C18_Witness ==
    \E t \in Threads :
        /\ Len(th[t].log) = 3
        /\ Reads(t, 1, fitcloud_ssm_prefix \o "/host") /\ ~th[t].log[1].ok
        /\ Reads(t, 2, LegacyDbPath(th[t].env_type, "host")) /\ th[t].log[2].ok
        /\ Reads(t, 3, LegacyDbPath(th[t].env_type, "user/admin/id"))
        /\ ~th[t].log[3].ok
        /\ th[t].dir_exc

(***************************************************************************)
(* Further properties of the directory and the broker.                     *)
(***************************************************************************)
\* corporation c and account a make a row a lookup may return
Eligible(c, a) ==
    /\ c.delete_flag = 0
    /\ a.delete_flag = 0
    /\ a.corp_id = c.corp_id
    /\ \E cai \in corporation_add_info : cai.corp_id = c.corp_id
    /\ a.role # <<>>

\* C19: a record a lookup returns is that of an account with delete_flag 0 of a
\* corporation with delete_flag 0 that has an extra-info row, with a non-empty
\* stored role name, and it answers the request; when no such account answers
\* the request the lookup gives None.
C19_OnlyLiveRowsReturned ==
    \A t \in Threads :
        th[t].dir_ret # Nothing =>
            \E c \in corporation, a \in account :
                /\ Eligible(c, a)
                /\ th[t].dir_ret[1].account_id = a.account_id
                /\ th[t].dir_ret[1].corp_id = c.corp_id
                /\ th[t].op = "by_id" => a.account_id = th[t].account_id
                /\ th[t].op = "by_name" => Contains(c.corp_name, th[t].corp_name)

\* the query for a soft-deleted account ran under the right label and gave None
C19_Witness ==
    \E t \in Threads :
        /\ th[t].op = "by_id" /\ th[t].account_id = "555555555555"
        /\ th[t].secret_title = DbSecretLabel
        /\ th[t].curs = "closed" /\ th[t].conn = "closed"
        /\ th[t].pc = "dir_done" /\ ~th[t].dir_exc /\ th[t].dir_ret = Nothing

\* the credentials the identity service issued in requests of t before the
\* current one
EarlierKeyIds(t) ==
    { "ASIA-" \o t \o "-" \o ToString(n) \o "-" \o hop :
        n \in 1..(callNo[t] - 1), hop \in {"user", "bridge", "target"} }

\* C20: a get_credential_by_account_id that returns a credential has run its
\* own directory query and its own assume_role calls, its triple is the one its
\* last assume_role call returned, and it is no triple of an earlier request.
C20_NoCredentialCache ==
    \A t \in Threads :
        (th[t].op = "by_id" /\ ReturnedCredential(t)) =>
            LET calls == StsCalls(t)
            IN  /\ th[t].secret_title # None
                /\ th[t].dir_ret # Nothing
                /\ th[t].account_info = th[t].dir_ret
                /\ Len(calls) >= 1
                /\ calls[Len(calls)].ok
                /\ calls[Len(calls)].creds[1] = Credentials(t, calls[Len(calls)].hop)
                /\ th[t].result[1] = Triple(calls[Len(calls)].creds[1])
                /\ th[t].result[1].accessKeyId \notin EarlierKeyIds(t)

\* a thread's second request returned a credential
C20_Witness ==
    \E t \in Threads :
        /\ callNo[t] = 2
        /\ th[t].op = "by_id" /\ ReturnedCredential(t)
        /\ Len(StsCalls(t)) = 2

(***************************************************************************)
(* Properties of the account record.                                       *)
(***************************************************************************)
\* the external id the account table stores for account_id
StoredExternalId(account_id) ==
    (CHOOSE a \in account : a.account_id = account_id).external_id

\* the external id of a record is a string, and "" when the table stores none
ExternalIdNormalized(rec) ==
    /\ rec.external_id # None
    /\ Falsy(StoredExternalId(rec.account_id)) => rec.external_id = ""
    /\ ~Falsy(StoredExternalId(rec.account_id))
         => rec.external_id = StoredExternalId(rec.account_id)

\* C23: the external_id of every record a directory lookup returns is a string,
\* the empty string whenever the stored external id is null or empty, and the
\* record a credential request hands to the broker never has a null external_id.
C23_ExternalIdIsString ==
    \A t \in Threads :
        /\ th[t].dir_ret # Nothing => ExternalIdNormalized(th[t].dir_ret[1])
        /\ th[t].op \in {"by_id", "by_name"} /\ th[t].account_info # Nothing
             => ExternalIdNormalized(th[t].account_info[1])

\* a record whose stored external id is null entered the broker and the target
\* role was assumed with it
C23_Witness ==
    \E t \in Threads :
        /\ th[t].op \in {"by_id", "by_name"}
        /\ th[t].account_info # Nothing
        /\ StoredExternalId(th[t].account_info[1].account_id) = None
        /\ th[t].account_info[1].external_id = ""
        /\ ReturnedCredential(t)

(***************************************************************************)
(* Properties of the broker's strategy selection.                          *)
(***************************************************************************)
\* the parameter names of a sequence of configuration fetches
FetchNames(fetches) == {fetches[i].name : i \in 1..Len(fetches)}

\* the hops of a sequence of assume_role calls
Hops(calls) == [i \in 1..Len(calls) |-> calls[i].hop]

\* C24: the single-hop strategy is taken only when assume_role_type is exactly
\* "User"; every other value ("Role", None, "", "user") loads the bridge
\* configuration and assumes the bridge role first; and the broker never
\* returns without an assume_role call that succeeded.
C24_OnlyUserIsSingleHop ==
    \A t \in Threads :
        th[t].op = "assume" =>
            LET ty == th[t].account_info[1].assume_role_type
            IN  /\ ty = "User" =>
                     /\ FetchNames(BrokerFetches(t))
                          \subseteq {CROSSACCOUNT_ACCESS_KEY, CROSSACCOUNT_SECRET_KEY}
                     /\ Hops(StsCalls(t)) \in {<<>>, <<"user">>}
                /\ ty # "User" =>
                     /\ FetchNames(BrokerFetches(t))
                          \subseteq {CROSSACCOUNT_BRIDGE_ACCOUNDID,
                                     CROSSACCOUNT_BRIDGE_EXTERNALID,
                                     CROSSACCOUNT_BRIDGE_ROLENAME}
                     /\ Hops(StsCalls(t)) \in {<<>>, <<"bridge">>, <<"bridge", "target">>}
                /\ th[t].pc = "done" /\ th[t].outcome = "returned" =>
                     /\ th[t].result # Nothing
                     /\ StsCalls(t) # <<>>
                     /\ StsCalls(t)[Len(StsCalls(t))].ok
                     /\ th[t].result[1] = Triple(StsCalls(t)[Len(StsCalls(t))].creds[1])
                     /\ ty # "User" => Len(StsCalls(t)) = 2

\* the broker was called with "user" and returned the credential of a two-hop chain
C24_Witness ==
    \E t \in Threads :
        /\ th[t].op = "assume"
        /\ th[t].account_info[1].assume_role_type = "user"
        /\ ReturnedCredential(t)
        /\ Hops(StsCalls(t)) = <<"bridge", "target">>

(***************************************************************************)
(* Properties of the agent tools.                                          *)
(***************************************************************************)
\* every secret access key and session token there is: the long-lived key of
\* the parameter store and those of every session the identity service issues
SecretValues ==
    {ssm[CROSSACCOUNT_SECRET_KEY]}
    \cup {"secret-" \o t \o "-" \o ToString(n) \o "-" \o hop :
            t \in Threads, n \in 1..(MaxCalls + 1), hop \in {"user", "bridge", "target"}}
    \cup {"token-" \o t \o "-" \o ToString(n) \o "-" \o hop :
            t \in Threads, n \in 1..(MaxCalls + 1), hop \in {"user", "bridge", "target"}}

\* the secrets thread t's current request holds
HeldSecrets(t) ==
    UNION { {StsCalls(t)[i].creds[1].SecretAccessKey, StsCalls(t)[i].creds[1].SessionToken} :
              i \in {j \in 1..Len(StsCalls(t)) : StsCalls(t)[j].ok} }
    \cup (IF th[t].loaded # <<>> /\ OnUserPath(t) /\ Len(th[t].loaded) = 2
          THEN {th[t].loaded[2]} ELSE {})

\* C21: no log record and no text returned by a tool contains a secret access
\* key or a session token, of the long-lived key pair or of any session, on
\* success paths and on error paths.
C21_NoSecretShown ==
    \A t \in Threads :
        /\ (tool[t].text \cup tool[t].logged) \cap (SecretValues \ {None}) = {}
        /\ HeldSecrets(t) \subseteq SecretValues

\* an error path on which secrets were held: the bridge session was issued, the
\* target assumption failed and the tool returned the error as text
C21_Witness ==
    \E t \in Threads :
        /\ tool[t].name \in CloudTrailTools
        /\ tool[t].pc = "done"
        /\ tool[t].outcome = "text"
        /\ th[t].outcome = "raised"
        /\ th[t].bridge # Nothing
        /\ th[t].bridge[1].SecretAccessKey \in HeldSecrets(t)
        /\ "Exception" \in tool[t].text

\* C22: search_account_by_name returns at most one record, a returned record's
\* corp_name contains the search term as a substring, and the result is absent
\* when no non-deleted corporation's name contains the term.
C22_NameContainsTerm ==
    \A t \in Threads :
        th[t].op \in {"by_name", "dir_name"} =>
            /\ Len(th[t].dir_ret) <= 1
            /\ th[t].dir_ret # Nothing
                 => Contains(th[t].dir_ret[1].corp_name, th[t].corp_name)
            /\ (~\E c \in corporation :
                    c.delete_flag = 0 /\ Contains(c.corp_name, th[t].corp_name))
                 => th[t].dir_ret = Nothing

\* C25: within one invocation of a CloudTrail tool every directory lookup uses
\* the same environment key: the key of the credential's lookup is the key of
\* the later lookup of the corporation name.
C25_OneEnvironmentKey ==
    \A t \in Threads :
        tool[t].name \in CloudTrailTools =>
            \A i, j \in 1..Len(tool[t].keys) : tool[t].keys[i] = tool[t].keys[j]

\* C26: every agent tool returns a text for every outcome of its
\* collaborators; a failure is never raised to the agent.
C26_ToolsNeverRaise ==
    \A t \in Threads : tool[t].outcome # "raised"

(***************************************************************************)
(* Properties of the conversation manager.                                 *)
(***************************************************************************)
\* C27: after every operation of the manager at most max_conversations
\* conversations are stored, each key once, and the conversation get_or_create
\* just returned is stored.
C27_BoundedAndStored ==
    /\ Len(conversations) <= manager.max_conversations
    /\ \A i, j \in 1..Len(conversations) :
         heap[conversations[i]].key = heap[conversations[j]].key => i = j
    /\ last_op.op = "get_or_create" =>
         /\ last_op.ret \in Range(conversations)
         /\ heap[last_op.ret] # NoConversation

\* a manager that was full created a conversation: the oldest was popped and
\* the new one is stored
C27_Witness ==
    /\ last_op.op = "get_or_create"
    /\ last_op.evicted # <<>>
    /\ Len(conversations) = manager.max_conversations
    /\ conversations[Len(conversations)] = last_op.ret
    /\ heap[last_op.ret].messages = <<>>

\* the place of Conversation id in the order of last use
Place(id) == CHOOSE i \in 1..Len(recency) : recency[i] = id

\* C28: get_or_create makes the conversation it returns the most recently
\* used, and a conversation popped for capacity was last used (by
\* get_or_create, by get or by a message) before every conversation that
\* stays: none that was read or written later is evicted before one that has
\* been idle longer.
C28_EvictsLeastRecentlyActive ==
    /\ last_op.op = "get_or_create" =>
         conversations # <<>> /\ conversations[Len(conversations)] = last_op.ret
    /\ \A e \in Range(last_op.evicted) \cap Range(recency), id \in Range(conversations) :
         Place(e) < Place(id)


\* the agent invocations that event e caused
CallsFor(e) == SelectSeq(agent_calls, LAMBDA c : c.event = e)

\* the places where the question of event e is stored as a user message
StoredFor(e) ==
    {p \in HeapSlots \X (1..(2 * MaxEvents)) :
        /\ p[2] <= Len(heap[p[1]].messages)
        /\ heap[p[1]].messages[p[2]] = [role |-> "user", content |-> e]}

\* no event causes two agent invocations or two stored user messages
ProcessedAtMostOnce ==
    \A e \in 1..Len(events) :
        /\ Len(CallsFor(e)) <= 1
        /\ Cardinality(StoredFor(e)) <= 1

\* a message that mentions the bot is processed by handle_app_mention only
MentionOnlyByAppMention ==
    \A i \in 1..Len(agent_calls) :
        MentionsBot(events[agent_calls[i].event].text) =>
            agent_calls[i].handler = "app_mention"

\* handle_message processes only a user's thread reply without a mention
MessageOnlyPlainReplies ==
    \A i \in 1..Len(agent_calls) :
        agent_calls[i].handler = "message" =>
            LET ev == events[agent_calls[i].event]
            IN  /\ ev.bot_id = None
                /\ ev.subtype = None
                /\ ev.in_thread
                /\ ~HasMention(ev.text)

\* C29: every inbound message is processed by at most one of the two handlers:
\* a message that mentions the bot only by handle_app_mention, and
\* handle_message only processes non-bot, subtype-free thread messages without
\* a mention in a thread in which the bot had taken part, so that no message
\* causes two agent invocations or two stored user messages.
C29_OneHandlerPerMessage ==
    /\ ProcessedAtMostOnce
    /\ MentionOnlyByAppMention
    /\ MessageOnlyPlainReplies
    /\ \A i \in 1..Len(agent_calls) :
         agent_calls[i].handler = "message" => agent_calls[i].participated

\* the roles alternate, beginning with the user's
Alternates(messages) ==
    \A i \in 1..Len(messages) :
        messages[i].role = IF i % 2 = 1 THEN "user" ELSE "assistant"

\* C30: in every reachable state the messages of each conversation alternate
\* user, assistant, user, assistant, beginning with a user message and with at
\* most one unanswered user message at the end, however the two handlers
\* interleave on a thread; and the prompt of a message is built from the
\* history that does not yet hold that message.
C30_AlternatingHistory ==
    /\ \A id \in HeapSlots : Alternates(heap[id].messages)
    /\ \A i \in 1..Len(agent_calls) :
         /\ agent_calls[i].prompt.question = agent_calls[i].event
         /\ Alternates(agent_calls[i].prompt.history)
         /\ \A k \in 1..Len(agent_calls[i].prompt.history) :
              agent_calls[i].prompt.history[k].content # agent_calls[i].event

\* the handler of the first message waits for Slack with the conversation in
\* its hand while the second message of the thread is answered in it
C30_Witness ==
    /\ Len(events) = 2
    /\ \E h \in {"app_mention", "message"} :
         /\ task[1][h].pc = "say"
         /\ heap[task[1][h].conv].messages =
               << [role |-> "user", content |-> 2], [role |-> "assistant", content |-> 2] >>

====
